---------------------------- MODULE Spec2Model ----------------------------
(***************************************************************************)
(* Model of the houdini-mcp bridge plumbing.                               *)
(*                                                                         *)
(*   Part I   the invalidation event queue                                 *)
(*            (src/houdini_extraction/invalidation.py)                     *)
(*   Part II  the bridge's request dispatcher and the hand-off of host     *)
(*            calls to Houdini's main thread                               *)
(*            (src/houdini_bridge/server.py)                               *)
(*                                                                         *)
(* Each part has its own specification (SpecQueue, SpecBridge) over the    *)
(* module's variables; a part leaves the other part's variables alone.     *)
(***************************************************************************)
EXTENDS Integers, Sequences, FiniteSets, TLC

VARIABLES
    \* ---- Part I: invalidation.py module state ----
    event_queue,    \* _event_queue: the list of queued events, oldest first
    event_lock,     \* _event_lock: the thread holding it, or NoThread
    qpc,            \* position of every producer / drainer thread
    pevent,         \* _push_event's local `event`, per producer
    pushes,         \* number of _push_event calls each producer has started
    created,        \* number of events built so far (orders the time.time() reads)
    devents,        \* drain_events' local `events`, per drainer
    response,       \* last value returned by handle_drain_events, per drainer
    delivered,      \* history: all events taken by drains, in the order of the drains' critical sections
    evicted,        \* history: the events deleted by the capacity trim
    sinceClear,     \* history: events appended since the queue was last cleared
    \* ---- Part II: bridge state ----
    in_houdini,     \* IN_HOUDINI: `import hou, hdefereval` succeeded
    ui_available,   \* hou.isUIAvailable()
    extraction_handlers, \* HoudiniBridgeHandler._extraction_handlers: the plugin's routes
    hpc,            \* position of every request-handling activation
    req,            \* the request an activation is serving
    main_queue,     \* callables queued for the main thread by hdefereval
    host_cur,       \* the callable the main thread is executing, or NoThread
    outcome,        \* what the callable of an activation produced
    sent,           \* the envelopes written to the client, per activation
    crashed,        \* the activation ended with an exception escaping do_GET/do_POST
    table,          \* history: the route table whose handler the dispatcher invoked
    called,         \* history: the activation's host callable was invoked (run was called)
    waited,         \* seconds the activation has been blocked in the hand-off
    handoff_log,    \* history: request ids in the order their callable was handed over
    start_log,      \* history: request ids in the order the main thread started them
    served,         \* number of requests accepted so far
    bops,           \* sub-operations the batch callable of an activation has executed
    host_trace,     \* history: the host calls in the order they ran (request id, what)
    \* ---- Part III: handle_batch ----
    operations,     \* body['operations']: the operations of the batch request
    op_index,       \* the loop variable i of execute_batch (0-based)
    results,        \* execute_batch's local `results`
    executed,       \* history: indexes of the operations whose helper was called
    bpc,            \* position of the batch handler
    breply,         \* what the client of the batch request receives
    \* ---- Part IV: handle_attrib_read and the staging of its result ----
    params,         \* the query parameters 'start' and 'count' of the request
    attrib,         \* the attribute read: data_type, storage width, asize, flat values
    xpc,            \* position of handle_attrib_read / of the client
    sliced,         \* locals after the slicing: start, count, end, total_elements, values
    xresult,        \* what handle_attrib_read returned (or that it raised)
    files,          \* the staging directory: path -> content
    decoded,        \* the values the client decoded from the staged file
    \* ---- Part V: file_ref.py writers and gc_expired_files ----
    now,            \* the clock time.time() and the file system read
    fs,             \* EXTRACT_DIR: path -> [mtime, open (a writer has not closed it)]
    wpc,            \* position of every writer thread
    wmode,          \* which function a writer is in: write_file_ref or write_file_ref_pair
    wunique,        \* a writer's local `unique`
    wcalls,         \* number of write calls started so far
    staged,         \* history: the paths returned to clients in file_refs
    gpc,            \* position of the collector
    g_now,          \* gc_expired_files' local `now`
    g_max_age,      \* its argument max_age_seconds
    g_list,         \* the entries of os.listdir not yet visited
    g_cur,          \* the local `filepath` about to be removed
    g_deleted,      \* the local `deleted`
    gc_seen,        \* history: path -> the mtime the current gc call read
    gc_removed,     \* history: the paths the current gc call removed
    gc_result,      \* the value the gc call returned
    lost,           \* history: paths gc removed while a writer still had them open
    \* ---- Part VI: invalidation.py callback registration ----
    inv_in_houdini, \* invalidation.py's IN_HOUDINI
    registered,     \* _registered
    callbacks,      \* the host's registrations of the module's callback, per target
    roots,          \* the root networks hou.node finds
    icalls,         \* number of start_invalidation / stop_invalidation calls so far
    ilast,          \* history: the last such call and the state it found
    nfired,         \* number of events the host has reported to registered callbacks
    fired,          \* history: the last event the host reported and what the callbacks pushed
    \* ---- Part VII: the MCP server's call_tool ----
    tool,           \* the tool name of the call
    tool_reply,     \* what call_bridge returned or raised
    tpc,            \* position of call_tool
    tool_text,      \* the text of the CallToolResult
    \* ---- Part VIII: start_bridge / stop_bridge / is_running / toggle_bridge ----
    server_lock,    \* _server_lock: the thread holding it, or NoThread
    server_instance, \* _server_instance: the HTTPServer, or NoInstance for None
    serving,        \* the HTTPServer instances whose serve_forever thread runs
    made,           \* number of HTTPServer instances constructed so far
    shutdown_request, \* shutdown() has been called on the running instance
    srv,            \* the serve_forever thread: between requests, or blocked in a hand-off
    lpc,            \* position of every thread calling the life-cycle functions
    ltoggle,        \* the thread is inside toggle_bridge
    lport,          \* the port argument of the thread's start_bridge call
    lret,           \* history: what the thread's last call returned, and what it found
    lcalls,         \* number of life-cycle calls started so far
    stopped         \* history: a stop_bridge has shut the server down and none was created since

cvars == <<bops, host_trace>>
qvars == <<event_queue, event_lock, qpc, pevent, pushes, created, devents,
           response, delivered, evicted, sinceClear>>
bvars == <<in_houdini, ui_available, extraction_handlers, hpc, req, main_queue,
           host_cur, outcome, sent, crashed, table, called, waited, handoff_log,
           start_log, served, cvars>>
avars == <<operations, op_index, results, executed, bpc, breply>>
evars == <<params, attrib, xpc, sliced, xresult, files, decoded>>
fvars == <<now, fs, wpc, wmode, wunique, wcalls, staged, gpc, g_now, g_max_age,
           g_list, g_cur, g_deleted, gc_seen, gc_removed, gc_result, lost>>
ivars == <<inv_in_houdini, registered, callbacks, roots, icalls, ilast, nfired, fired>>
lvars == <<server_lock, server_instance, serving, made, shutdown_request, srv,
           lpc, ltoggle, lport, lret, lcalls, stopped>>
tvars == <<tool, tool_reply, tpc, tool_text>>
yvars == <<ivars, tvars, lvars>>
xvars == <<avars, evars, fvars, yvars>>
vars == <<qvars, bvars, xvars>>

NoThread == "none"

(***************************************************************************)
(* Generic helpers                                                         *)
(***************************************************************************)
Range(s) == {s[i] : i \in 1..Len(s)}

LastN(n, s) == IF Len(s) > n THEN SubSeq(s, Len(s) - n + 1, Len(s)) ELSE s

NoDuplicates(s) == \A i, j \in 1..Len(s) : i # j => s[i] # s[j]

(***************************************************************************)
(* Part I.  The invalidation event queue                                   *)
(***************************************************************************)

\* _MAX_QUEUE_SIZE (1000 in the source), scaled down for model checking.
MAX_QUEUE_SIZE == 2

\* Number of _push_event calls made in a run, over all producer threads.
MaxPushes == 3

Producers == {"p1", "p2"}
Drainers == {"d1", "d2"}
QThreads == Producers \cup Drainers

\* `with _event_lock:` is entered only while no thread holds the lock.
CanAcquireFree(t) == TRUE
CanAcquire(t) == event_lock = NoThread

\* The capacity trim: del _event_queue[: len(_event_queue) - _MAX_QUEUE_SIZE]
TrimNothing(q) == q
TrimNewest(q) == IF Len(q) > MAX_QUEUE_SIZE THEN SubSeq(q, 1, MAX_QUEUE_SIZE) ELSE q
Trim(q) ==
    IF Len(q) > MAX_QUEUE_SIZE
    THEN SubSeq(q, Len(q) - MAX_QUEUE_SIZE + 1, Len(q))
    ELSE q

\* events = list(_event_queue)
CopyReversed(q) == [i \in 1..Len(q) |-> q[Len(q) + 1 - i]]
Copy(q) == q

\* _event_queue.clear()
Cleared(q) == <<>>

\* handle_drain_events: {'events': events, 'count': len(events)}
DrainResponse(events) == [events |-> events, count |-> Len(events)]

\* The event dict built by _push_event.  The producer and its call number
\* identify the event (they stand for event_type / scope / path); the
\* timestamp is the rank of this time.time() read among all reads.
NewEvent(p) == [producer |-> p, seq |-> pushes[p] + 1, timestamp |-> created + 1]

QInit ==
    /\ event_queue = <<>>
    /\ event_lock = NoThread
    /\ qpc = [t \in QThreads |-> "idle"]
    /\ pevent = [p \in Producers |-> [producer |-> p, seq |-> 0, timestamp |-> 0]]
    /\ pushes = [p \in Producers |-> 0]
    /\ created = 0
    /\ devents = [d \in Drainers |-> <<>>]
    /\ response = [d \in Drainers |-> DrainResponse(<<>>)]
    /\ delivered = <<>>
    /\ evicted = {}
    /\ sinceClear = <<>>

\* _push_event, lines 51-57: build the event before taking the lock.
PushCreate(p) ==
    /\ qpc[p] = "idle"
    /\ created < MaxPushes
    /\ pevent' = [pevent EXCEPT ![p] = NewEvent(p)]
    /\ pushes' = [pushes EXCEPT ![p] = @ + 1]
    /\ created' = created + 1
    /\ qpc' = [qpc EXCEPT ![p] = "p_lock"]
    /\ UNCHANGED <<bvars, xvars>>
    /\ UNCHANGED <<event_queue, event_lock, devents, response, delivered,
                   evicted, sinceClear>>

\* _push_event, line 59: with _event_lock
PushAcquire(p) ==
    /\ qpc[p] = "p_lock"
    /\ CanAcquire(p)
    /\ event_lock' = p
    /\ qpc' = [qpc EXCEPT ![p] = "p_append"]
    /\ UNCHANGED <<bvars, xvars>>
    /\ UNCHANGED <<event_queue, pevent, pushes, created, devents, response,
                   delivered, evicted, sinceClear>>

\* _push_event, line 60: _event_queue.append(event)
PushAppend(p) ==
    /\ qpc[p] = "p_append"
    /\ event_queue' = Append(event_queue, pevent[p])
    /\ sinceClear' = Append(sinceClear, pevent[p])
    /\ qpc' = [qpc EXCEPT ![p] = "p_trim"]
    /\ UNCHANGED <<bvars, xvars>>
    /\ UNCHANGED <<event_lock, pevent, pushes, created, devents, response,
                   delivered, evicted>>

\* _push_event, lines 62-63 and the end of the with block.
PushTrim(p) ==
    /\ qpc[p] = "p_trim"
    /\ event_queue' = Trim(event_queue)
    /\ evicted' = evicted \cup (Range(event_queue) \ Range(Trim(event_queue)))
    /\ event_lock' = NoThread
    /\ qpc' = [qpc EXCEPT ![p] = "idle"]
    /\ UNCHANGED <<bvars, xvars>>
    /\ UNCHANGED <<pevent, pushes, created, devents, response, delivered,
                   sinceClear>>

\* drain_events, line 72: with _event_lock
DrainAcquire(d) ==
    /\ qpc[d] = "idle"
    /\ CanAcquire(d)
    /\ event_lock' = d
    /\ qpc' = [qpc EXCEPT ![d] = "d_copy"]
    /\ UNCHANGED <<bvars, xvars>>
    /\ UNCHANGED <<event_queue, pevent, pushes, created, devents, response,
                   delivered, evicted, sinceClear>>

\* drain_events, line 73: events = list(_event_queue)
DrainCopy(d) ==
    /\ qpc[d] = "d_copy"
    /\ devents' = [devents EXCEPT ![d] = Copy(event_queue)]
    /\ qpc' = [qpc EXCEPT ![d] = "d_clear"]
    /\ UNCHANGED <<bvars, xvars>>
    /\ UNCHANGED <<event_queue, event_lock, pevent, pushes, created, response,
                   delivered, evicted, sinceClear>>

\* drain_events, line 74 and the end of the with block.
DrainClear(d) ==
    /\ qpc[d] = "d_clear"
    /\ event_queue' = Cleared(event_queue)
    /\ sinceClear' = <<>>
    /\ delivered' = delivered \o devents[d]
    /\ event_lock' = NoThread
    /\ qpc' = [qpc EXCEPT ![d] = "d_return"]
    /\ UNCHANGED <<bvars, xvars>>
    /\ UNCHANGED <<pevent, pushes, created, devents, response, evicted>>

\* drain_events, line 75, and handle_drain_events, lines 87-91.
DrainReturn(d) ==
    /\ qpc[d] = "d_return"
    /\ response' = [response EXCEPT ![d] = DrainResponse(devents[d])]
    /\ qpc' = [qpc EXCEPT ![d] = "idle"]
    /\ UNCHANGED <<bvars, xvars>>
    /\ UNCHANGED <<event_queue, event_lock, pevent, pushes, created, devents,
                   delivered, evicted, sinceClear>>


QNext ==
    \/ \E p \in Producers : PushCreate(p)
    \/ \E p \in Producers : PushAcquire(p)
    \/ \E p \in Producers : PushAppend(p)
    \/ \E p \in Producers : PushTrim(p)
    \/ \E d \in Drainers : DrainAcquire(d)
    \/ \E d \in Drainers : DrainCopy(d)
    \/ \E d \in Drainers : DrainClear(d)
    \/ \E d \in Drainers : DrainReturn(d)

(***************************************************************************)
(* Part II.  The bridge: dispatcher and main-thread hand-off               *)
(***************************************************************************)

Activations == {"r1", "r2"}

\* Number of requests the listener accepts in a run.
MaxRequests == 2

\* HoudiniBridgeHandler.TIMEOUT, seconds.
TIMEOUT == 30

\* The clock advances in steps of TickSeconds; waiting times are tracked up
\* to MaxElapsed seconds.
TickSeconds == 10
MaxElapsed == 50

\* Representative routes of the three route tables.
GET_ROUTES == {"/ping", "/node/get"}
POST_ROUTES == {"/node/create", "/scene/save", "/batch", "/vggt/execute"}
EXT_ROUTES == {"/extract/events"}

\* What _extraction_handlers may hold: nothing (no plugin), the routes
\* ExtractionPlugin.register_handlers registers, or those plus a route that a
\* plugin registered under a path the primary GET table also has.
PluginTables == {{}, EXT_ROUTES, EXT_ROUTES \cup {"/node/get"}}
Paths == GET_ROUTES \cup POST_ROUTES \cup EXT_ROUTES \cup {"/nope"}

\* Routes whose handler answers 400 when a parameter is absent:
\* handle_node_get ('path'), handle_node_create ('type'),
\* handle_batch (a non-empty 'operations'), handle_vggt_execute ('path').
RequiresParam(route) ==
    route \in {"/node/get", "/node/create", "/batch", "/vggt/execute"}

\* Content-Length header: a positive integer, 0 / absent, or not an integer.
Lengths == {"ok", "zero", "not_int"}

\* The bytes of a POST body, by what json.loads makes of them:
\*   object_full     an object holding every parameter the route requires
\*   object_missing  an object lacking a parameter the route requires
\*   non_object      valid JSON that is not an object ([1], null, 3)
\*   bad_json        rejected with json.JSONDecodeError
\*   bad_utf8        not decodable: rejected with UnicodeDecodeError
\* (for a GET the first two describe the query string).
Bodies == {"object_full", "object_missing", "non_object", "bad_json", "bad_utf8"}

\* (the body is not read when the length is 0 or not an integer).
Requests ==
    [method : {"GET"}, route : Paths, length : {"ok"},
     body : {"object_full", "object_missing"}]
    \cup [method : {"POST"}, route : Paths, length : {"ok"}, body : Bodies]
    \cup [method : {"POST"}, route : Paths, length : Lengths \ {"ok"},
          body : {"object_full"}]

NoRequest == [method |-> "", route |-> "", length |-> "", body |-> "", id |-> 0]
NoOutcome == [kind |-> "none", code |-> "", message |-> ""]

\* What a host callable can produce: a value, a contract error dict built by
\* _error_response, or an exception.
Outcomes ==
    {[kind |-> "value", code |-> "", message |-> ""],
     [kind |-> "contract_error", code |-> "NODE_NOT_FOUND", message |-> "not found"],
     [kind |-> "contract_error", code |-> "EXTRACTION_FAILED", message |-> "failed"],
     [kind |-> "raised", code |-> "", message |-> "boom"]}

\* handle_vggt_execute's callable (lines 2201-2240) reports its failures as
\* {'error': '<text>'}: the text sits under the 'error' key, and the dict has
\* no 'code' and no 'message'.
VggtOutcomes ==
    {[kind |-> "value", code |-> "", message |-> ""],
     [kind |-> "bare_error", code |-> "", message |-> "Node not found"],
     [kind |-> "raised", code |-> "", message |-> "boom"]}

\* Outside Houdini `hou` is None: every primary handler's callable raises
\* AttributeError on its first hou.* call; handle_drain_events does not use hou.
OutcomesOf(r) ==
    IF in_houdini
    THEN (IF r.route = "/vggt/execute" THEN VggtOutcomes ELSE Outcomes)
    ELSE IF r.route \in EXT_ROUTES
         THEN {[kind |-> "value", code |-> "", message |-> ""]}
         ELSE {[kind |-> "raised", code |-> "", message |-> "NoneType"]}

\* send_error_json: code_map.get(code, 'UNKNOWN')
ErrorCode(status) ==
    CASE status = 400 -> "INVALID_PARAMS"
      [] status = 404 -> "NOT_FOUND"
      [] status = 500 -> "INTERNAL_ERROR"
      [] OTHER -> "UNKNOWN"

\* An envelope on the wire: the HTTP status and the keys 'error', 'code' and
\* 'message' of the JSON object ("" for an absent key; 'error' holds "true"
\* for the JSON value true, or the text a handler put there).
\* send_error_json(code, message): the body is _error_response(error_code, message).
SendErrorJson(status, message) ==
    [status |-> status, error |-> "true", code |-> ErrorCode(status), message |-> message]

\* send_json(data): status 200 whatever the data, and the data as it is; a
\* contract error dict keeps its own code and message.
SendJson(o) ==
    CASE o.kind = "contract_error" ->
            [status |-> 200, error |-> "true", code |-> o.code, message |-> o.message]
      [] o.kind = "bare_error" ->
            [status |-> 200, error |-> o.message, code |-> "", message |-> ""]
      [] OTHER ->
            [status |-> 200, error |-> "", code |-> "", message |-> ""]

\* do_POST lines 125-130: what reading and parsing the body yields.
ParseBody(r) ==
    CASE r.length = "not_int" -> "ValueError"
      [] r.length = "zero" -> "object_missing"
      [] r.body = "bad_json" -> "JSONDecodeError"
      [] r.body = "bad_utf8" -> "UnicodeDecodeError"
      [] OTHER -> r.body

\* A primary handler up to its hand-off: body.get on a non-dict raises
\* AttributeError (caught by the dispatcher's except), a missing parameter is
\* answered 400, otherwise the decorated callable is called.
HandlerEntry(route, body) ==
    CASE body = "non_object" -> "send500"
      [] body = "object_missing" /\ RequiresParam(route) -> "send400"
      [] OTHER -> "run"

\* The route lookups of the dispatcher.  do_GET: routes.get(route) first, and
\* only when it finds nothing ext_handlers.get(route); do_POST: routes.get(route)
\* alone (the plugin's table holds GET handlers only).
LookupPluginFirst(r) ==
    CASE r.method = "GET" /\ r.route \in extraction_handlers -> "plugin"
      [] r.method = "GET" /\ r.route \in GET_ROUTES -> "primary"
      [] r.method = "POST" /\ r.route \in POST_ROUTES -> "primary"
      [] OTHER -> "none"
Lookup(r) ==
    CASE r.method = "GET" /\ r.route \in GET_ROUTES -> "primary"
      [] r.method = "GET" /\ r.route \in extraction_handlers -> "plugin"
      [] r.method = "POST" /\ r.route \in POST_ROUTES -> "primary"
      [] OTHER -> "none"

\* do_POST: only `except json.JSONDecodeError` guards the parse.
DoPost(r) ==
    LET body == ParseBody(r) IN
    CASE body \in {"ValueError", "UnicodeDecodeError"} -> "crash"
      [] body = "JSONDecodeError" -> "send400"
      [] Lookup(r) = "none" -> "send404"
      [] OTHER -> HandlerEntry(r.route, body)

\* do_GET: a primary handler checks its parameters itself; a plugin handler
\* is wrapped in require_main_thread and run.
DoGet(r) ==
    CASE Lookup(r) = "primary" -> HandlerEntry(r.route, r.body)
      [] Lookup(r) = "plugin" -> "run"
      [] OTHER -> "send404"

Dispatch(r) == IF r.method = "POST" THEN DoPost(r) ELSE DoGet(r)

\* The table whose handler the dispatcher invoked: none when do_POST returned
\* at line 129-130 (before the lookup) or when both lookups found nothing.
TableUsed(r) ==
    IF r.method = "POST" /\ ParseBody(r) = "JSONDecodeError" THEN "none" ELSE Lookup(r)

\* The text of the error sent before any host call.
EarlyMessage(r) ==
    CASE Dispatch(r) = "send404" -> "Unknown route"
      [] Dispatch(r) = "send500" -> "no attribute get"
      [] r.method = "POST" /\ ParseBody(r) = "JSONDecodeError" -> "Invalid JSON"
      [] OTHER -> "Missing parameter"

EarlyStatus(r) ==
    CASE Dispatch(r) = "send404" -> 404
      [] Dispatch(r) = "send500" -> 500
      [] OTHER -> 400

\* require_main_thread, line 49
UseMainThreadInHoudini == in_houdini
UseMainThread == in_houdini /\ ui_available

\* Sub-operations of one batch request (the length of body['operations']).
MaxBatchOps == 2

\* The request runs execute_batch (handle_batch, lines 1098-1126).
IsBatch(r) == r.route = "/batch"

\* HTTPServer (not a threading server) serves one request at a time: the next
\* request is accepted only after the previous handler has returned.
CanAcceptThreaded(h) == TRUE
CanAccept(h) == \A u \in Activations : hpc[u] = "idle"

\* The dispatcher's try/except around the handler (lines 100-103, 109-119,
\* 168-171): the value or the contract error is sent with send_json, an
\* exception is answered with send_error_json(500, str(e)).
HandlerReplyUncaught(o) ==
    IF o.kind = "raised"
    THEN [sent |-> <<>>, crashed |-> TRUE]
    ELSE [sent |-> <<SendJson(o)>>, crashed |-> FALSE]
HandlerReply(o) ==
    IF o.kind = "raised"
    THEN [sent |-> <<SendErrorJson(500, o.message)>>, crashed |-> FALSE]
    ELSE [sent |-> <<SendJson(o)>>, crashed |-> FALSE]

\* Callables executing right now, on the main thread or in place on a
\* request thread.
Executing ==
    {h \in Activations : hpc[h] = "direct"}
        \cup (IF host_cur = NoThread THEN {} ELSE {host_cur})

BInitIdle ==
    /\ hpc = [h \in Activations |-> "idle"]
    /\ req = [h \in Activations |-> NoRequest]
    /\ main_queue = <<>>
    /\ host_cur = NoThread
    /\ outcome = [h \in Activations |-> NoOutcome]
    /\ sent = [h \in Activations |-> <<>>]
    /\ crashed = [h \in Activations |-> FALSE]
    /\ table = [h \in Activations |-> "none"]
    /\ called = [h \in Activations |-> FALSE]
    /\ waited = [h \in Activations |-> 0]
    /\ handoff_log = <<>>
    /\ start_log = <<>>
    /\ served = 0
    /\ bops = [h \in Activations |-> 0]
    /\ host_trace = <<>>

\* The bridge after start_bridge: inside graphical Houdini, inside hython
\* (no UI), or outside Houdini; with or without the extraction plugin.
BInit ==
    /\ BInitIdle
    /\ in_houdini \in BOOLEAN
    /\ ui_available \in BOOLEAN
    /\ ui_available => in_houdini
    /\ extraction_handlers \in PluginTables

\* serve_forever accepts a request and starts do_GET / do_POST on it.
Accept(h, r) ==
    /\ served < MaxRequests
    /\ CanAccept(h)
    /\ hpc[h] = "idle"
    /\ served' = served + 1
    /\ req' = [req EXCEPT ![h] = [method |-> r.method, route |-> r.route,
                                  length |-> r.length, body |-> r.body,
                                  id |-> served + 1]]
    /\ hpc' = [hpc EXCEPT ![h] = "dispatch"]
    /\ UNCHANGED <<qvars, xvars, cvars>>
    /\ UNCHANGED <<in_houdini, ui_available, extraction_handlers, table, main_queue,
                   host_cur, outcome, sent, crashed, called, waited,
                   handoff_log, start_log>>

\* An exception leaves do_POST: no response is written, the connection closes.
DispatchCrash(h) ==
    /\ hpc[h] = "dispatch"
    /\ Dispatch(req[h]) = "crash"
    /\ crashed' = [crashed EXCEPT ![h] = TRUE]
    /\ hpc' = [hpc EXCEPT ![h] = "done"]
    /\ UNCHANGED <<qvars, xvars, cvars>>
    /\ UNCHANGED <<in_houdini, ui_available, extraction_handlers, table, req, main_queue,
                   host_cur, outcome, sent, called, waited, handoff_log,
                   start_log, served>>

\* The request is answered with send_error_json before any host call.
DispatchReply(h) ==
    /\ hpc[h] = "dispatch"
    /\ Dispatch(req[h]) \in {"send400", "send404", "send500"}
    /\ sent' = [sent EXCEPT ![h] =
                  Append(@, SendErrorJson(EarlyStatus(req[h]), EarlyMessage(req[h])))]
    /\ table' = [table EXCEPT ![h] = TableUsed(req[h])]
    /\ hpc' = [hpc EXCEPT ![h] = "done"]
    /\ UNCHANGED <<qvars, xvars, cvars>>
    /\ UNCHANGED <<in_houdini, ui_available, extraction_handlers, req, main_queue,
                   host_cur, outcome, crashed, called, waited, handoff_log,
                   start_log, served>>

\* wrapper, line 50: hdefereval.executeInMainThreadWithResult queues the
\* callable for the main thread and blocks the calling thread.
RunHandOff(h) ==
    /\ hpc[h] = "dispatch"
    /\ Dispatch(req[h]) = "run"
    /\ UseMainThread
    /\ main_queue' = Append(main_queue, h)
    /\ handoff_log' = Append(handoff_log, req[h].id)
    /\ called' = [called EXCEPT ![h] = TRUE]
    /\ table' = [table EXCEPT ![h] = TableUsed(req[h])]
    /\ hpc' = [hpc EXCEPT ![h] = "waiting"]
    /\ UNCHANGED <<qvars, xvars, cvars>>
    /\ UNCHANGED <<in_houdini, ui_available, extraction_handlers, req, host_cur,
                   outcome, sent, crashed, waited, start_log, served>>

\* wrapper, line 51: the callable is called on the calling thread.
RunInPlace(h) ==
    /\ hpc[h] = "dispatch"
    /\ Dispatch(req[h]) = "run"
    /\ ~UseMainThread
    /\ called' = [called EXCEPT ![h] = TRUE]
    /\ table' = [table EXCEPT ![h] = TableUsed(req[h])]
    /\ hpc' = [hpc EXCEPT ![h] = "direct"]
    /\ host_trace' = Append(host_trace, [id |-> req[h].id, what |-> "begin"])
    /\ UNCHANGED bops
    /\ UNCHANGED <<qvars, xvars>>
    /\ UNCHANGED <<in_houdini, ui_available, extraction_handlers, req, main_queue,
                   host_cur, outcome, sent, crashed, waited, handoff_log,
                   start_log, served>>

\* The callable running in place returns or raises.
DirectFinish(h, o) ==
    /\ hpc[h] = "direct"
    /\ o \in OutcomesOf(req[h])
    /\ outcome' = [outcome EXCEPT ![h] = o]
    /\ hpc' = [hpc EXCEPT ![h] = "respond"]
    /\ (IsBatch(req[h]) => o.kind = "raised" \/ bops[h] >= 1)
    /\ host_trace' = Append(host_trace, [id |-> req[h].id, what |-> "end"])
    /\ UNCHANGED bops
    /\ UNCHANGED <<qvars, xvars>>
    /\ UNCHANGED <<in_houdini, ui_available, extraction_handlers, table, req, main_queue,
                   host_cur, sent, crashed, called, waited, handoff_log,
                   start_log, served>>

\* Houdini's event loop (it runs only with a UI) takes the oldest queued
\* callable and starts executing it on the main thread.
HostStart ==
    /\ in_houdini /\ ui_available
    /\ host_cur = NoThread
    /\ main_queue # <<>>
    /\ host_cur' = Head(main_queue)
    /\ main_queue' = Tail(main_queue)
    /\ start_log' = Append(start_log, req[Head(main_queue)].id)
    /\ host_trace' = Append(host_trace, [id |-> req[Head(main_queue)].id, what |-> "begin"])
    /\ UNCHANGED bops
    /\ UNCHANGED <<qvars, xvars>>
    /\ UNCHANGED <<in_houdini, ui_available, extraction_handlers, table, hpc, req,
                   outcome, sent, crashed, called, waited, handoff_log, served>>

\* The callable returns or raises on the main thread; hdefereval hands the
\* result (or re-raises the exception) to the blocked caller.
HostFinish(o) ==
    /\ host_cur # NoThread
    /\ o \in OutcomesOf(req[host_cur])
    /\ outcome' = [outcome EXCEPT ![host_cur] = o]
    /\ hpc' = [hpc EXCEPT ![host_cur] = "respond"]
    /\ host_cur' = NoThread
    /\ (IsBatch(req[host_cur]) => o.kind = "raised" \/ bops[host_cur] >= 1)
    /\ host_trace' = Append(host_trace, [id |-> req[host_cur].id, what |-> "end"])
    /\ UNCHANGED bops
    /\ UNCHANGED <<qvars, xvars>>
    /\ UNCHANGED <<in_houdini, ui_available, extraction_handlers, table, req, main_queue,
                   sent, crashed, called, waited, handoff_log, start_log, served>>

\* Time passes while a request thread is blocked in the hand-off: the call at
\* line 50 carries no timeout, so nothing else wakes the thread.
Tick ==
    /\ \E h \in Activations : hpc[h] = "waiting" /\ waited[h] < MaxElapsed
    /\ waited' = [h \in Activations |->
                    IF hpc[h] = "waiting"
                    THEN (IF waited[h] + TickSeconds > MaxElapsed
                          THEN MaxElapsed ELSE waited[h] + TickSeconds)
                    ELSE waited[h]]
    /\ UNCHANGED <<qvars, xvars, cvars>>
    /\ UNCHANGED <<in_houdini, ui_available, extraction_handlers, table, hpc, req,
                   main_queue, host_cur, outcome, sent, crashed, called,
                   handoff_log, start_log, served>>

\* Back in the handler / dispatcher: send_json(result), or the except clause.
Respond(h) ==
    /\ hpc[h] = "respond"
    /\ sent' = [sent EXCEPT ![h] = @ \o HandlerReply(outcome[h]).sent]
    /\ crashed' = [crashed EXCEPT ![h] = HandlerReply(outcome[h]).crashed]
    /\ hpc' = [hpc EXCEPT ![h] = "done"]
    /\ UNCHANGED <<qvars, xvars, cvars>>
    /\ UNCHANGED <<in_houdini, ui_available, extraction_handlers, table, req, main_queue,
                   host_cur, outcome, called, waited, handoff_log, start_log,
                   served>>

\* do_GET / do_POST has returned: the request's handler state is gone.
Return(h) ==
    /\ hpc[h] = "done"
    /\ hpc' = [hpc EXCEPT ![h] = "idle"]
    /\ req' = [req EXCEPT ![h] = NoRequest]
    /\ outcome' = [outcome EXCEPT ![h] = NoOutcome]
    /\ sent' = [sent EXCEPT ![h] = <<>>]
    /\ crashed' = [crashed EXCEPT ![h] = FALSE]
    /\ table' = [table EXCEPT ![h] = "none"]
    /\ called' = [called EXCEPT ![h] = FALSE]
    /\ waited' = [waited EXCEPT ![h] = 0]
    /\ bops' = [bops EXCEPT ![h] = 0]
    /\ UNCHANGED host_trace
    /\ UNCHANGED <<qvars, xvars>>
    /\ UNCHANGED <<in_houdini, ui_available, extraction_handlers, main_queue,
                   host_cur, handoff_log, start_log, served>>

\* execute_batch, lines 1103-1122, running in place: one sub-operation's
\* helper is called.
DirectBatchOp(h) ==
    /\ hpc[h] = "direct"
    /\ IsBatch(req[h])
    /\ bops[h] < MaxBatchOps
    /\ bops' = [bops EXCEPT ![h] = @ + 1]
    /\ host_trace' = Append(host_trace, [id |-> req[h].id, what |-> "op"])
    /\ UNCHANGED <<qvars, xvars>>
    /\ UNCHANGED <<in_houdini, ui_available, extraction_handlers, table, hpc, req,
                   main_queue, host_cur, outcome, sent, crashed, called, waited,
                   handoff_log, start_log, served>>

\* The same on the main thread.
HostBatchOp ==
    /\ host_cur # NoThread
    /\ IsBatch(req[host_cur])
    /\ bops[host_cur] < MaxBatchOps
    /\ bops' = [bops EXCEPT ![host_cur] = @ + 1]
    /\ host_trace' = Append(host_trace, [id |-> req[host_cur].id, what |-> "op"])
    /\ UNCHANGED <<qvars, xvars>>
    /\ UNCHANGED <<in_houdini, ui_available, extraction_handlers, table, hpc, req,
                   main_queue, host_cur, outcome, sent, crashed, called, waited,
                   handoff_log, start_log, served>>

BNext ==
    \/ \E h \in Activations, r \in Requests : Accept(h, r)
    \/ \E h \in Activations : Return(h)
    \/ \E h \in Activations : DispatchCrash(h)
    \/ \E h \in Activations : DispatchReply(h)
    \/ \E h \in Activations : RunHandOff(h)
    \/ \E h \in Activations : RunInPlace(h)
    \/ \E h \in Activations, o \in Outcomes \cup VggtOutcomes : DirectFinish(h, o)
    \/ HostStart
    \/ \E h \in Activations : DirectBatchOp(h)
    \/ HostBatchOp
    \/ \E o \in Outcomes \cup VggtOutcomes : HostFinish(o)
    \/ Tick
    \/ \E h \in Activations : Respond(h)

(***************************************************************************)
(* Part III: HoudiniBridgeHandler.handle_batch (server.py), the callable   *)
(* execute_batch and the dispatcher's answer.                              *)
(***************************************************************************)
MaxOps == 3

OpTypes == {"create", "set_parm", "bogus"}

\* One element of body['operations']: a JSON object {type, args} whose args
\* hold every key the helper reads ("full") or lack one ("missing"), or a JSON
\* value that is not an object (5, "create", null).
Operations ==
    [shape : {"object"}, type : OpTypes, args : {"full", "missing"}]
    \cup {[shape |-> "non_object", type |-> "", args |-> ""]}

RECURSIVE SeqsUpTo(_, _)
SeqsUpTo(S, n) ==
    IF n = 0 THEN {<<>>}
    ELSE LET shorter == SeqsUpTo(S, n - 1) IN
         shorter \cup {Append(q, x) : q \in {t \in shorter : Len(t) = n - 1}, x \in S}

\* What the helper of an operation does: it returns a value, returns an
\* _error_response dict, or raises (KeyError on a missing key, hou.Error).
\* An unknown type gets _error_response('TYPE_MISMATCH', ...) at line 1118.
OpOutcomes(op) ==
    CASE op.type = "create" /\ op.args = "full" ->
            {[kind |-> "value", code |-> "", message |-> ""],
             [kind |-> "contract_error", code |-> "NODE_NOT_FOUND", message |-> "Parent not found"],
             [kind |-> "raised", code |-> "", message |-> "OperationFailed"]}
      [] op.type = "create" /\ op.args = "missing" ->
            {[kind |-> "contract_error", code |-> "NODE_NOT_FOUND", message |-> "Parent not found"],
             [kind |-> "raised", code |-> "", message |-> "KeyError"]}
      [] op.type = "set_parm" /\ op.args = "full" ->
            {[kind |-> "value", code |-> "", message |-> ""],
             [kind |-> "contract_error", code |-> "NODE_NOT_FOUND", message |-> "Node not found"],
             [kind |-> "contract_error", code |-> "PARM_NOT_FOUND", message |-> "Parameter not found"],
             [kind |-> "raised", code |-> "", message |-> "OperationFailed"]}
      [] op.type = "set_parm" /\ op.args = "missing" ->
            {[kind |-> "raised", code |-> "", message |-> "KeyError"]}
      [] OTHER ->
            {[kind |-> "contract_error", code |-> "TYPE_MISMATCH", message |-> "Unknown operation type"]}

AllOpOutcomes == UNION {OpOutcomes(op) : op \in Operations \ {[shape |-> "non_object", type |-> "", args |-> ""]}}

\* _error_response(code, message)
ErrorResponse(code, message) == [error |-> "true", code |-> code, message |-> message]

\* The `result` of one entry: the helper's value or error dict, and for an
\* exception (lines 1121-1122) _error_response('EXTRACTION_FAILED', str(e)).
OpResult(o) ==
    CASE o.kind = "raised" -> ErrorResponse("EXTRACTION_FAILED", o.message)
      [] o.kind = "contract_error" -> ErrorResponse(o.code, o.message)
      [] OTHER -> [error |-> "", code |-> "", message |-> ""]

NoReply == [status |-> 0, error |-> "", code |-> "", results |-> <<>>, count |-> 0]

AIdle ==
    /\ operations = <<>>
    /\ op_index = 0
    /\ results = <<>>
    /\ executed = <<>>
    /\ bpc = "idle"
    /\ breply = NoReply

\* A POST /batch with a JSON object body has reached handle_batch.
AInit ==
    /\ operations \in SeqsUpTo(Operations, MaxOps)
    /\ op_index = 0
    /\ results = <<>>
    /\ executed = <<>>
    /\ bpc = "entry"
    /\ breply = NoReply

\* Lines 1094-1096: no operations, answered 400.
BatchEmpty ==
    /\ bpc = "entry"
    /\ operations = <<>>
    /\ breply' = [status |-> 400, error |-> "true", code |-> ErrorCode(400),
                  results |-> <<>>, count |-> 0]
    /\ bpc' = "done"
    /\ UNCHANGED <<operations, op_index, results, executed>>
    /\ UNCHANGED <<qvars, bvars, evars, fvars, yvars>>

\* Line 1126: execute_batch() is called (through require_main_thread).
BatchEnter ==
    /\ bpc = "entry"
    /\ operations # <<>>
    /\ bpc' = "loop"
    /\ UNCHANGED <<operations, op_index, results, executed, breply>>
    /\ UNCHANGED <<qvars, bvars, evars, fvars, yvars>>

\* One turn of the loop on an object: lines 1103-1122.
BatchOp(o) ==
    /\ bpc = "loop"
    /\ op_index < Len(operations)
    /\ operations[op_index + 1].shape = "object"
    /\ o \in OpOutcomes(operations[op_index + 1])
    /\ executed' = Append(executed, op_index)
    /\ results' = Append(results, [index |-> op_index,
                                    type |-> operations[op_index + 1].type,
                                    result |-> OpResult(o)])
    /\ op_index' = op_index + 1
    /\ UNCHANGED <<operations, bpc, breply>>
    /\ UNCHANGED <<qvars, bvars, evars, fvars, yvars>>

\* One turn of the loop on a value that is not an object: op.get at line 1104
\* is outside the try, so AttributeError leaves the loop and execute_batch.
BatchOpNotObject ==
    /\ bpc = "loop"
    /\ op_index < Len(operations)
    /\ operations[op_index + 1].shape = "non_object"
    /\ bpc' = "raised"
    /\ UNCHANGED <<operations, op_index, results, executed, breply>>
    /\ UNCHANGED <<qvars, bvars, evars, fvars, yvars>>

\* Lines 1124, 1126: return {'results': results, 'count': len(results)}, sent
\* with send_json.
BatchReturn ==
    /\ bpc = "loop"
    /\ op_index = Len(operations)
    /\ breply' = [status |-> 200, error |-> "", code |-> "",
                  results |-> results, count |-> Len(results)]
    /\ bpc' = "done"
    /\ UNCHANGED <<operations, op_index, results, executed>>
    /\ UNCHANGED <<qvars, bvars, evars, fvars, yvars>>

\* do_POST lines 168-171: the exception is answered 500; the results built so
\* far are dropped.
BatchRaise ==
    /\ bpc = "raised"
    /\ breply' = [status |-> 500, error |-> "true", code |-> ErrorCode(500),
                  results |-> <<>>, count |-> 0]
    /\ bpc' = "done"
    /\ UNCHANGED <<operations, op_index, results, executed>>
    /\ UNCHANGED <<qvars, bvars, evars, fvars, yvars>>

ANext ==
    \/ BatchEmpty
    \/ BatchEnter
    \/ \E o \in AllOpOutcomes : BatchOp(o)
    \/ BatchOpNotObject
    \/ BatchReturn
    \/ BatchRaise

(***************************************************************************)
(* Part IV: handle_attrib_read (geo.py) from the parsing of 'start' and    *)
(* 'count' to its result, write_file_ref_pair (file_ref.py), and a client  *)
(* decoding the staged file as its sidecar declares.                       *)
(***************************************************************************)
INLINE_THRESHOLD == 16
MaxElems == 5
IntBits == 4
DEFAULT_TTL == 300

RECURSIVE Pow2(_)
Pow2(n) == IF n = 0 THEN 1 ELSE 2 * Pow2(n - 1)

Min(a, b) == IF a < b THEN a ELSE b
Abs(x) == IF x < 0 THEN -x ELSE x

\* The 'i' format holds IntBits-bit two's complement integers.
IntMin == -Pow2(IntBits - 1)
IntMax == Pow2(IntBits - 1) - 1

\* The 'f' format holds a sign bit and IntBits - 1 bits of magnitude.  A
\* Python float (a double) is modelled as an integer counting half steps of
\* the 'f' format: the even integers up to FloatMax are the values 'f' can
\* hold, the odd ones lie halfway between two of them.
Magnitudes == Pow2(IntBits - 1)
FloatMax == 2 * (Magnitudes - 1)

\* An attribute: hou.attribData (Float, Int, String) and, for numbers, the
\* width of its storage (32-bit, or 64-bit as for fpreal64 / int64 attributes).
DataKinds ==
    [data_type : {"Float", "Int"}, storage : {32, 64}]
    \cup {[data_type |-> "String", storage |-> 32]}

\* The i-th flat value of an attribute of a kind: 32-bit floats are values
\* 'f' holds, 64-bit floats are not; 32-bit ints span the range of 'i',
\* 64-bit ints lie above it; strings are numbered.
AttribValue(kind, i) ==
    CASE kind.data_type = "Float" /\ kind.storage = 32 -> 2 * (i % Magnitudes)
      [] kind.data_type = "Float" /\ kind.storage = 64 -> 2 * (i % Magnitudes) + 1
      [] kind.data_type = "Int" /\ kind.storage = 32 -> (i % Pow2(IntBits)) + IntMin
      [] kind.data_type = "Int" /\ kind.storage = 64 -> IntMax + i
      [] OTHER -> i

\* _read_bulk_attrib: the flat tuple of total * asize values.
ReadBulkAttrib(kind, asize, total) ==
    [i \in 1..(total * asize) |-> AttribValue(kind, i)]

Attribs ==
    {[data_type |-> k.data_type, storage |-> k.storage, asize |-> a,
      values |-> ReadBulkAttrib(k, a, t)] :
        k \in DataKinds, a \in {1, 2}, t \in 0..MaxElems}

\* A query parameter: absent, the text of an integer, or other text.
IntParams ==
    {[kind |-> "absent", val |-> 0], [kind |-> "junk", val |-> 0]}
    \cup [kind : {"int"}, val : (-2)..(MaxElems + 1)]

\* int(params.get(name, default)), lines 165-166: ValueError on other text.
ParseInt(p, default) ==
    CASE p.kind = "absent" -> [raised |-> FALSE, val |-> default]
      [] p.kind = "int" -> [raised |-> FALSE, val |-> p.val]
      [] OTHER -> [raised |-> TRUE, val |-> 0]

\* Python's s[a:b]: a negative bound counts from the end, and both bounds are
\* clamped to 0..len(s).
SliceBound(k, n) ==
    IF k < 0 THEN (IF k + n < 0 THEN 0 ELSE k + n)
    ELSE (IF k > n THEN n ELSE k)

PySlice(s, a, b) ==
    LET lo == SliceBound(a, Len(s))
        hi == SliceBound(b, Len(s))
    IN IF lo < hi THEN SubSeq(s, lo + 1, hi) ELSE <<>>

\* Lines 214-222.
Slicing(start, count, asize, values) ==
    LET total_elements == IF asize > 1 THEN Len(values) \div asize ELSE Len(values)
        cnt == IF count = -1 THEN total_elements - start ELSE count
        end == Min(start + cnt, total_elements)
    IN [start |-> start, count |-> cnt, end |-> end,
        total_elements |-> total_elements,
        values |-> IF asize > 1 THEN PySlice(values, start * asize, end * asize)
                   ELSE PySlice(values, start, end)]

\* Line 225.
EstimatedBytes(values) == Len(values) * 4

\* Line 227.
Inline(values) == EstimatedBytes(values) < INLINE_THRESHOLD

\* Lines 229-235: the flat values as they are, or cut into rows of asize.
Reshape(values, asize) ==
    IF asize > 1
    THEN [r \in 1..((Len(values) + asize - 1) \div asize) |->
             SubSeq(values, (r - 1) * asize + 1, Min(r * asize, Len(values)))]
    ELSE [i \in 1..Len(values) |-> <<values[i]>>]

\* struct.pack('<f', x): x rounded to the nearest value 'f' holds, ties to the
\* even magnitude; OverflowError when the result is out of range.
RoundF(x) ==
    IF x % 2 = 0 THEN x
    ELSE IF ((Abs(x) - 1) \div 2) % 2 = 0
         THEN (IF x < 0 THEN x + 1 ELSE x - 1)
         ELSE (IF x < 0 THEN x - 1 ELSE x + 1)

CanPackF(x) == Abs(RoundF(x)) <= FloatMax
PackF(x) ==
    LET r == RoundF(x) IN
    IF r < 0 THEN Magnitudes + ((-r) \div 2) ELSE r \div 2
UnpackF(w) == IF w >= Magnitudes THEN -(2 * (w - Magnitudes)) ELSE 2 * w

\* struct.pack('<i', x): two's complement; struct.error when out of range.
CanPackI(x) == IntMin <= x /\ x <= IntMax
PackI(x) == x % Pow2(IntBits)
UnpackI(w) == IF w >= Pow2(IntBits - 1) THEN w - Pow2(IntBits) ELSE w

\* Lines 249-252, 272: struct.pack(fmt, *values), one 4-byte word per value.
CanPack(data_type, values) ==
    \A i \in 1..Len(values) :
        IF data_type = "Float" THEN CanPackF(values[i]) ELSE CanPackI(values[i])
Pack(data_type, values) ==
    [i \in 1..Len(values) |->
        IF data_type = "Float" THEN PackF(values[i]) ELSE PackI(values[i])]

\* Line 283.
EncodingOf(data_type) == IF data_type = "Float" THEN "float32" ELSE "int32"

\* The content of a staged file: packed words, JSON text (the list it
\* spells), or a metadata object.
NoMeta == [size |-> 0, count |-> 0, total |-> 0, encoding |-> "", byte_order |-> ""]
BinContent(words) == [kind |-> "bin", data |-> words, meta |-> NoMeta]
JsonContent(values) == [kind |-> "json", data |-> values, meta |-> NoMeta]
MetaContent(meta) == [kind |-> "meta", data |-> <<>>, meta |-> meta]

\* len() of the bytes of a content: 4 per packed word; for json.dumps of a
\* list of n one-character strings, n * 3 + (n - 1) * 2 + 2.
SizeBytes(c) ==
    CASE c.kind = "bin" -> 4 * Len(c.data)
      [] c.kind = "json" -> IF c.data = <<>> THEN 2 ELSE 5 * Len(c.data)
      [] OTHER -> 0

\* uuid.uuid4().hex[:12], the file name's unique part.
Uniques == {"u1", "u2"}

Put(f, k, v) == [x \in DOMAIN f \cup {k} |-> IF x = k THEN v ELSE f[x]]

\* write_file_ref_pair, lines 86-108: the names of the two files, the two
\* writes in order, and the file_ref returned.
PairPaths(unique, binary_ext) ==
    [path |-> [unique |-> unique, ext |-> binary_ext],
     metadata_path |-> [unique |-> unique, ext |-> ".json"]]

WriteFileRefPair(dir, content, meta, binary_ext, unique) ==
    LET p == PairPaths(unique, binary_ext) IN
    [files |-> Put(Put(dir, p.path, content), p.metadata_path, MetaContent(meta)),
     ref |-> [form |-> "file_ref", path |-> p.path, metadata_path |-> p.metadata_path,
              size_bytes |-> SizeBytes(content), ttl_seconds |-> DEFAULT_TTL]]

\* The metadata handle_attrib_read hands to write_file_ref_pair.
Metadata(sl, asize, encoding) ==
    [size |-> asize, count |-> sl.end - sl.start, total |-> sl.total_elements,
     encoding |-> encoding,
     byte_order |-> IF encoding = "json" THEN "" ELSE "little"]

NoPath == [unique |-> "", ext |-> ""]
NoResult ==
    [form |-> "none", count |-> 0, total |-> 0, values |-> <<>>,
     path |-> NoPath, metadata_path |-> NoPath, size_bytes |-> 0, ttl_seconds |-> 0]

\* Lines 237-246.
InlineResult(sl, asize) ==
    [NoResult EXCEPT !.form = "inline", !.count = sl.end - sl.start,
                     !.total = sl.total_elements,
                     !.values = Reshape(sl.values, asize)]

FileRefResult(ref) ==
    [NoResult EXCEPT !.form = "file_ref", !.path = ref.path,
                     !.metadata_path = ref.metadata_path,
                     !.size_bytes = ref.size_bytes,
                     !.ttl_seconds = ref.ttl_seconds]

\* The handler raised: do_GET answers 500 INTERNAL_ERROR (line 116-119).
RaisedResult == [NoResult EXCEPT !.form = "raised"]

NoSliced == [start |-> 0, count |-> 0, end |-> 0, total_elements |-> 0, values |-> <<>>]
NoDecoded == [ok |-> FALSE, values |-> <<>>]

\* A client reads the file at FileRef.path as count * size little-endian
\* values of the sidecar's encoding (the inverse of struct.pack at line 272).
Decode(content, meta) ==
    LET n == meta.count * meta.size IN
    IF content.kind # "bin" \/ n < 0 \/ n # Len(content.data)
    THEN [ok |-> FALSE, values |-> <<>>]
    ELSE [ok |-> TRUE,
          values |-> [i \in 1..n |->
                         IF meta.encoding = "float32" THEN UnpackF(content.data[i])
                         ELSE UnpackI(content.data[i])]]

EIdle ==
    /\ params = [start |-> [kind |-> "absent", val |-> 0],
                 count |-> [kind |-> "absent", val |-> 0]]
    /\ attrib = [data_type |-> "", storage |-> 0, asize |-> 0, values |-> <<>>]
    /\ xpc = "idle"
    /\ sliced = NoSliced
    /\ xresult = NoResult
    /\ files = <<>>
    /\ decoded = NoDecoded

\* GET /extract/attrib_read has reached handle_attrib_read for an attribute
\* that exists and can be read.
EInit ==
    /\ params \in [start : IntParams, count : IntParams]
    /\ attrib \in Attribs
    /\ xpc = "entry"
    /\ sliced = NoSliced
    /\ xresult = NoResult
    /\ files = <<>>
    /\ decoded = NoDecoded

\* Lines 165-166 on a parameter that is not an integer: ValueError.
AttribReadBadParam ==
    /\ xpc = "entry"
    /\ ParseInt(params.start, 0).raised \/ ParseInt(params.count, -1).raised
    /\ xresult' = RaisedResult
    /\ xpc' = "done"
    /\ UNCHANGED <<params, attrib, sliced, files, decoded>>
    /\ UNCHANGED <<qvars, bvars, avars, fvars, yvars>>

\* Lines 165-222.
AttribReadSlice ==
    /\ xpc = "entry"
    /\ ~ParseInt(params.start, 0).raised
    /\ ~ParseInt(params.count, -1).raised
    /\ sliced' = Slicing(ParseInt(params.start, 0).val, ParseInt(params.count, -1).val,
                         attrib.asize, attrib.values)
    /\ xpc' = "sliced"
    /\ UNCHANGED <<params, attrib, xresult, files, decoded>>
    /\ UNCHANGED <<qvars, bvars, avars, fvars, yvars>>

\* Lines 227-246.
AttribReadInline ==
    /\ xpc = "sliced"
    /\ Inline(sliced.values)
    /\ xresult' = InlineResult(sliced, attrib.asize)
    /\ xpc' = "done"
    /\ UNCHANGED <<params, attrib, sliced, files, decoded>>
    /\ UNCHANGED <<qvars, bvars, avars, fvars, yvars>>

\* Lines 247-288 for numbers that struct.pack accepts, and for strings.
AttribReadStage(unique) ==
    /\ xpc = "sliced"
    /\ ~Inline(sliced.values)
    /\ attrib.data_type = "String" \/ CanPack(attrib.data_type, sliced.values)
    /\ LET w == IF attrib.data_type = "String"
                THEN WriteFileRefPair(files, JsonContent(sliced.values),
                                      Metadata(sliced, attrib.asize, "json"),
                                      ".json", unique)
                ELSE WriteFileRefPair(files,
                                      BinContent(Pack(attrib.data_type, sliced.values)),
                                      Metadata(sliced, attrib.asize,
                                               EncodingOf(attrib.data_type)),
                                      ".bin", unique)
       IN /\ files' = w.files
          /\ xresult' = FileRefResult(w.ref)
    /\ xpc' = "staged"
    /\ UNCHANGED <<params, attrib, sliced, decoded>>
    /\ UNCHANGED <<qvars, bvars, avars, fvars, yvars>>

\* Line 272 on a value the format cannot hold: struct.pack raises.
AttribReadPackError ==
    /\ xpc = "sliced"
    /\ ~Inline(sliced.values)
    /\ attrib.data_type # "String"
    /\ ~CanPack(attrib.data_type, sliced.values)
    /\ xresult' = RaisedResult
    /\ xpc' = "done"
    /\ UNCHANGED <<params, attrib, sliced, files, decoded>>
    /\ UNCHANGED <<qvars, bvars, avars, fvars, yvars>>

\* The client reads the sidecar at metadata_path, then the file at path.
ClientDecode ==
    /\ xpc = "staged"
    /\ decoded' = Decode(files[xresult.path], files[xresult.metadata_path].meta)
    /\ xpc' = "done"
    /\ UNCHANGED <<params, attrib, sliced, xresult, files>>
    /\ UNCHANGED <<qvars, bvars, avars, fvars, yvars>>

ENext ==
    \/ AttribReadBadParam
    \/ AttribReadSlice
    \/ AttribReadInline
    \/ \E unique \in Uniques : AttribReadStage(unique)
    \/ AttribReadPackError
    \/ ClientDecode

(***************************************************************************)
(* Part V: the staging directory (file_ref.py): a thread inside            *)
(* write_file_ref / write_file_ref_pair, a thread inside one call of       *)
(* gc_expired_files, clients removing files they have consumed, and the    *)
(* clock.  Threads interleave at the granularity of the file system calls  *)
(* (statements that touch only locals are joined to the next call).        *)
(***************************************************************************)
Writers == {"w1"}
MaxWrites == 1
FileTickSeconds == 301
MaxTime == 602

\* The delay granted to a collector after a file has expired.
GcMargin == 300

\* The max_age_seconds a caller passes: 0, or the default.
MaxAges == {0, DEFAULT_TTL}

BinPath(unique) == [unique |-> unique, ext |-> ".bin"]
MetaPath(unique) == [unique |-> unique, ext |-> ".json"]

\* The path a writer is at: the payload file, or the sidecar of a pair.
WriterPath(w) ==
    IF wpc[w] \in {"open_meta", "write_meta"} THEN MetaPath(wunique[w])
    ELSE BinPath(wunique[w])

\* The directory without the path p.
Without(f, p) == [x \in DOMAIN f \ {p} |-> f[x]]

\* Line 132.
ExpiredAtAge(now0, mtime, max_age) == now0 - mtime >= max_age
Expired(now0, mtime, max_age) == now0 - mtime > max_age

FIdle ==
    /\ now = 0
    /\ fs = <<>>
    /\ wpc = [w \in Writers |-> "idle"]
    /\ wmode = [w \in Writers |-> ""]
    /\ wunique = [w \in Writers |-> 0]
    /\ wcalls = 0
    /\ staged = {}
    /\ gpc = "idle"
    /\ g_now = 0
    /\ g_max_age = 0
    /\ g_list = {}
    /\ g_cur = NoPath
    /\ g_deleted = 0
    /\ gc_seen = <<>>
    /\ gc_removed = {}
    /\ gc_result = 0
    /\ lost = {}

\* write_file_ref lines 46-51 / write_file_ref_pair lines 88-95: a name no
\* other call uses, and open(path, 'wb'): the file exists, empty, from here on.
WriteBegin(w, mode) ==
    /\ wpc[w] = "idle"
    /\ wcalls < MaxWrites
    /\ wcalls' = wcalls + 1
    /\ wunique' = [wunique EXCEPT ![w] = wcalls + 1]
    /\ wmode' = [wmode EXCEPT ![w] = mode]
    /\ fs' = Put(fs, BinPath(wcalls + 1), [mtime |-> now, open |-> TRUE])
    /\ wpc' = [wpc EXCEPT ![w] = "write_bin"]
    /\ UNCHANGED <<now, staged, gpc, g_now, g_max_age, g_list, g_cur,
                   g_deleted, gc_seen, gc_removed, gc_result, lost>>
    /\ UNCHANGED <<qvars, bvars, avars, evars, yvars>>

\* f.write(data) and the close at the end of the with block (lines 52, 96):
\* the data reaches the file and its mtime is the time of the write.  A file
\* unlinked in between stays unlinked.  write_file_ref returns its file_ref
\* (lines 54-60).
WriteClose(w) ==
    /\ wpc[w] = "write_bin"
    /\ fs' = IF WriterPath(w) \in DOMAIN fs
             THEN [fs EXCEPT ![WriterPath(w)] = [mtime |-> now, open |-> FALSE]]
             ELSE fs
    /\ IF wmode[w] = "pair"
       THEN /\ wpc' = [wpc EXCEPT ![w] = "open_meta"]
            /\ UNCHANGED staged
       ELSE /\ wpc' = [wpc EXCEPT ![w] = "idle"]
            /\ staged' = staged \cup {BinPath(wunique[w])}
    /\ UNCHANGED <<now, wmode, wunique, wcalls, gpc, g_now, g_max_age,
                   g_list, g_cur, g_deleted, gc_seen, gc_removed, gc_result, lost>>
    /\ UNCHANGED <<qvars, bvars, avars, evars, yvars>>

\* write_file_ref_pair line 98: open(meta_path, 'w').
WriteOpenMeta(w) ==
    /\ wpc[w] = "open_meta"
    /\ fs' = Put(fs, WriterPath(w), [mtime |-> now, open |-> TRUE])
    /\ wpc' = [wpc EXCEPT ![w] = "write_meta"]
    /\ UNCHANGED <<now, wmode, wunique, wcalls, staged, gpc, g_now, g_max_age,
                   g_list, g_cur, g_deleted, gc_seen, gc_removed, gc_result, lost>>
    /\ UNCHANGED <<qvars, bvars, avars, evars, yvars>>

\* write_file_ref_pair lines 99-108: json.dump, close, and the file_ref goes
\* to the client.
WriteCloseMeta(w) ==
    /\ wpc[w] = "write_meta"
    /\ fs' = IF WriterPath(w) \in DOMAIN fs
             THEN [fs EXCEPT ![WriterPath(w)] = [mtime |-> now, open |-> FALSE]]
             ELSE fs
    /\ staged' = staged \cup {BinPath(wunique[w]), MetaPath(wunique[w])}
    /\ wpc' = [wpc EXCEPT ![w] = "idle"]
    /\ UNCHANGED <<now, wmode, wunique, wcalls, gpc, g_now, g_max_age,
                   g_list, g_cur, g_deleted, gc_seen, gc_removed, gc_result, lost>>
    /\ UNCHANGED <<qvars, bvars, avars, evars, yvars>>

\* A client that has consumed a staged file removes it.
ClientRemove(p) ==
    /\ p \in staged
    /\ p \in DOMAIN fs
    /\ fs' = Without(fs, p)
    /\ UNCHANGED <<now, wpc, wmode, wunique, wcalls, staged, gpc, g_now,
                   g_max_age, g_list, g_cur, g_deleted, gc_seen, gc_removed,
                   gc_result, lost>>
    /\ UNCHANGED <<qvars, bvars, avars, evars, yvars>>

\* gc_expired_files lines 120-126: now = time.time(), deleted = 0 and
\* os.listdir.  (A file created between the reading of the clock and the
\* listing has an mtime of `now` or later, as has one created after it.)
GcStart(max_age) ==
    /\ gpc = "idle"
    /\ g_now' = now
    /\ g_max_age' = max_age
    /\ g_deleted' = 0
    /\ g_list' = DOMAIN fs
    /\ gpc' = "loop"
    /\ UNCHANGED <<now, fs, wpc, wmode, wunique, wcalls, staged, g_cur,
                   gc_seen, gc_removed, gc_result, lost>>
    /\ UNCHANGED <<qvars, bvars, avars, evars, yvars>>

\* Lines 127-131, 135-136 on an entry removed since the listing: isfile is
\* false (or getmtime raises OSError), the entry is skipped.
GcSkip(p) ==
    /\ gpc = "loop"
    /\ p \in g_list
    /\ p \notin DOMAIN fs
    /\ g_list' = g_list \ {p}
    /\ UNCHANGED <<now, fs, wpc, wmode, wunique, wcalls, staged, gpc, g_now,
                   g_max_age, g_cur, g_deleted, gc_seen, gc_removed, gc_result,
                   lost>>
    /\ UNCHANGED <<qvars, bvars, avars, evars, yvars>>

\* Lines 127-132 on a file: its mtime is read and compared.
GcStat(p) ==
    /\ gpc = "loop"
    /\ p \in g_list
    /\ p \in DOMAIN fs
    /\ gc_seen' = Put(gc_seen, p, fs[p].mtime)
    /\ g_list' = g_list \ {p}
    /\ IF Expired(g_now, fs[p].mtime, g_max_age)
       THEN g_cur' = p /\ gpc' = "remove"
       ELSE UNCHANGED <<g_cur, gpc>>
    /\ UNCHANGED <<now, fs, wpc, wmode, wunique, wcalls, staged, g_now,
                   g_max_age, g_deleted, gc_removed, gc_result, lost>>
    /\ UNCHANGED <<qvars, bvars, avars, evars, yvars>>

\* Lines 133-134: os.remove, then deleted += 1.
GcRemove ==
    /\ gpc = "remove"
    /\ g_cur \in DOMAIN fs
    /\ fs' = Without(fs, g_cur)
    /\ g_deleted' = g_deleted + 1
    /\ gc_removed' = gc_removed \cup {g_cur}
    /\ lost' = IF fs[g_cur].open THEN lost \cup {g_cur} ELSE lost
    /\ gpc' = "loop"
    /\ UNCHANGED <<now, wpc, wmode, wunique, wcalls, staged, g_now, g_max_age,
                   g_list, g_cur, gc_seen, gc_result>>
    /\ UNCHANGED <<qvars, bvars, avars, evars, yvars>>

\* Lines 133, 135-136: the file is gone already, os.remove raises OSError.
GcRemoveFails ==
    /\ gpc = "remove"
    /\ g_cur \notin DOMAIN fs
    /\ gpc' = "loop"
    /\ UNCHANGED <<now, fs, wpc, wmode, wunique, wcalls, staged, g_now,
                   g_max_age, g_list, g_cur, g_deleted, gc_seen, gc_removed,
                   gc_result, lost>>
    /\ UNCHANGED <<qvars, bvars, avars, evars, yvars>>

\* Line 138.
GcReturn ==
    /\ gpc = "loop"
    /\ g_list = {}
    /\ gc_result' = g_deleted
    /\ gpc' = "returned"
    /\ UNCHANGED <<now, fs, wpc, wmode, wunique, wcalls, staged, g_now,
                   g_max_age, g_list, g_cur, g_deleted, gc_seen, gc_removed,
                   lost>>
    /\ UNCHANGED <<qvars, bvars, avars, evars, yvars>>

\* Time passes.
FileTick ==
    /\ now < MaxTime
    /\ now' = IF now + FileTickSeconds > MaxTime THEN MaxTime ELSE now + FileTickSeconds
    /\ UNCHANGED <<fs, wpc, wmode, wunique, wcalls, staged, gpc, g_now,
                   g_max_age, g_list, g_cur, g_deleted, gc_seen, gc_removed,
                   gc_result, lost>>
    /\ UNCHANGED <<qvars, bvars, avars, evars, yvars>>

AllPaths == {BinPath(u) : u \in 1..MaxWrites} \cup {MetaPath(u) : u \in 1..MaxWrites}

FNext ==
    \/ \E w \in Writers, mode \in {"single", "pair"} : WriteBegin(w, mode)
    \/ \E w \in Writers : WriteClose(w)
    \/ \E w \in Writers : WriteOpenMeta(w)
    \/ \E w \in Writers : WriteCloseMeta(w)
    \/ \E p \in AllPaths : ClientRemove(p)
    \/ \E max_age \in MaxAges : GcStart(max_age)
    \/ \E p \in AllPaths : GcSkip(p)
    \/ \E p \in AllPaths : GcStat(p)
    \/ GcRemove
    \/ GcRemoveFails
    \/ GcReturn
    \/ FileTick

(***************************************************************************)
(* Part VI: registration of the host callbacks (start_invalidation,        *)
(* stop_invalidation) and the callbacks themselves (invalidation.py).      *)
(* The host is modelled by what the code relies on: addEventCallback adds  *)
(* one registration of the callback or raises, removeEventCallback removes *)
(* one or raises when there is none, and an event of a target runs every   *)
(* registration of the callback on that target.                            *)
(***************************************************************************)
MaxInvCalls == 3
MaxFired == 2

\* _ROOT_PATHS (two of the six).
ROOT_PATHS == {"/obj", "/out"}
Targets == {"hipFile", "playbar"} \cup ROOT_PATHS

\* The vocabulary of the module docstring and of _push_event's docstring.
EVENT_TYPES ==
    {"cook_complete", "parm_changed", "node_created", "node_deleted",
     "connection_changed", "frame_changed", "hip_saved"}
SCOPES == {"node", "network", "scene"}

\* str(event_type) of the host's enumeration values, split into words.
HipEventNames ==
    {<<"hipFileEventType", a, b>> :
        a \in {"Before", "After"}, b \in {"Clear", "Load", "Merge", "Save"}}
NodeEventNames ==
    {<<"nodeEventType", "Child", "Created">>,
     <<"nodeEventType", "Child", "Deleted">>,
     <<"nodeEventType", "Child", "Switched">>,
     <<"nodeEventType", "Parm", "Tuple", "Changed">>,
     <<"nodeEventType", "Parm", "Tuple", "Channel", "Changed">>,
     <<"nodeEventType", "Input", "Rewired">>,
     <<"nodeEventType", "Appearance", "Changed">>,
     <<"nodeEventType", "Name", "Changed">>}
PlaybarEventNames ==
    {<<"playbarEvent", "Started">>, <<"playbarEvent", "Stopped">>,
     <<"playbarEvent", "Frame", "Changed">>,
     <<"playbarEvent", "Channel", "List", "Changed">>}

\* The variants the module maps to an event type (docstring, lines 109-113).
MappedNames ==
    {<<"hipFileEventType", "After", b>> : b \in {"Save", "Load", "Clear"}}
    \cup {<<"nodeEventType", "Child", "Created">>,
          <<"nodeEventType", "Child", "Deleted">>,
          <<"nodeEventType", "Parm", "Tuple", "Changed">>,
          <<"nodeEventType", "Input", "Rewired">>,
          <<"nodeEventType", "Appearance", "Changed">>,
          <<"playbarEvent", "Frame", "Changed">>}

\* `pat in name` on the words of a name.
Contains(name, pat) ==
    \E i \in 1..Len(name) :
        /\ i + Len(pat) - 1 <= Len(name)
        /\ SubSeq(name, i, i + Len(pat) - 1) = pat

\* The keyword arguments the host passes to a node callback: which of node,
\* child_node and parm_tuple are given, and whether the node's path() raises
\* (the node is gone).
NoKwargs == [node |-> FALSE, child_node |-> FALSE, parm_tuple |-> FALSE, stale |-> FALSE]
NodeKwargs ==
    {NoKwargs,
     [NoKwargs EXCEPT !.node = TRUE],
     [NoKwargs EXCEPT !.node = TRUE, !.child_node = TRUE],
     [NoKwargs EXCEPT !.node = TRUE, !.parm_tuple = TRUE],
     [NoKwargs EXCEPT !.node = TRUE, !.stale = TRUE]}

\* The dict _push_event appends (its timestamp is Part I's matter); a path is
\* a pair of a node path and what the callback appends to it.
InvalidateEvent(event_type, scope, path) ==
    [event |-> "invalidate", scope |-> scope, path |-> path, event_type |-> event_type]

\* _hip_event_callback, lines 190-199: the events it pushes.
HipEventCallback(name, kw) ==
    IF Contains(name, <<"After", "Save">>)
    THEN <<InvalidateEvent("hip_saved", "scene", <<"hip", "">>)>>
    ELSE IF Contains(name, <<"After", "Load">>) \/ Contains(name, <<"After", "Clear">>)
    THEN <<InvalidateEvent("hip_saved", "scene", <<"hip", "">>)>>
    ELSE <<>>

\* _node_event_callback, lines 202-230.
NodeEventCallbackDefaulting(name, kw) ==
    <<InvalidateEvent("node_changed", "node", <<"node", "">>)>>
NodeEventCallback(name, kw) ==
    LET node_path == IF kw.node THEN "node" ELSE "/" IN
    IF kw.node /\ kw.stale THEN <<>>
    ELSE IF Contains(name, <<"Child", "Created">>)
    THEN <<InvalidateEvent("node_created", "network",
                           <<IF kw.child_node THEN "child" ELSE node_path, "">>)>>
    ELSE IF Contains(name, <<"Child", "Deleted">>)
    THEN <<InvalidateEvent("node_deleted", "network", <<node_path, "">>)>>
    ELSE IF Contains(name, <<"Parm", "Tuple", "Changed">>)
    THEN <<InvalidateEvent("parm_changed", "node",
                           <<node_path, IF kw.parm_tuple THEN "/parm" ELSE "/">>)>>
    ELSE IF Contains(name, <<"Input", "Rewired">>)
    THEN <<InvalidateEvent("connection_changed", "node", <<node_path, "">>)>>
    ELSE IF Contains(name, <<"Appearance", "Changed">>)
    THEN <<InvalidateEvent("cook_complete", "node", <<node_path, "">>)>>
    ELSE <<>>

\* _playbar_event_callback, lines 233-240.
PlaybarEventCallback(name, kw) ==
    IF Contains(name, <<"Frame", "Changed">>)
    THEN <<InvalidateEvent("frame_changed", "scene", <<"frame:", "1">>)>>
    ELSE <<>>

\* The callback start_invalidation registers on a target, and the variants
\* the host has for that target.
CallbackOf(target, name, kw) ==
    CASE target = "hipFile" -> HipEventCallback(name, kw)
      [] target = "playbar" -> PlaybarEventCallback(name, kw)
      [] OTHER -> NodeEventCallback(name, kw)
NamesOf(target) ==
    CASE target = "hipFile" -> HipEventNames
      [] target = "playbar" -> PlaybarEventNames
      [] OTHER -> NodeEventNames
KwargsOf(target) == IF target \in ROOT_PATHS THEN NodeKwargs ELSE {NoKwargs}

\* The addEventCallback calls that may raise in one start_invalidation.
Failings == SUBSET {"hipFile", "/obj"}

\* start_invalidation line 119: nothing to do.
StartGuardNoFlag(reg) == ~inv_in_houdini
StartGuard(reg) == ~inv_in_houdini \/ reg

\* stop_invalidation line 162.
StopGuard(reg) == ~inv_in_houdini \/ ~reg

\* Lines 131-150: one addEventCallback per target; a root hou.node does not
\* find is skipped, a call that raises is passed over.
RegisterAll(cb, existing, failing) ==
    [k \in Targets |->
        IF k \in failing \/ (k \in ROOT_PATHS /\ k \notin existing)
        THEN cb[k] ELSE cb[k] + 1]

\* Lines 165-181: one removeEventCallback per target; it raises (and is
\* passed over) where the callback is not registered.
UnregisterAll(cb, existing) ==
    [k \in Targets |->
        IF cb[k] = 0 \/ (k \in ROOT_PATHS /\ k \notin existing)
        THEN cb[k] ELSE cb[k] - 1]

NoFired == [target |-> "", name |-> <<>>, events |-> <<>>]
NoCall == [op |-> "", registered |-> FALSE, callbacks |-> [k \in Targets |-> 0]]

IIdle ==
    /\ inv_in_houdini = FALSE
    /\ registered = FALSE
    /\ callbacks = [k \in Targets |-> 0]
    /\ roots = {}
    /\ icalls = 0
    /\ ilast = NoCall
    /\ nfired = 0
    /\ fired = NoFired

IInit ==
    /\ inv_in_houdini \in BOOLEAN
    /\ registered = FALSE
    /\ callbacks = [k \in Targets |-> 0]
    /\ roots \in SUBSET ROOT_PATHS
    /\ icalls = 0
    /\ ilast = NoCall
    /\ nfired = 0
    /\ fired = NoFired

\* start_invalidation, lines 106-152.
StartInvalidation(failing) ==
    /\ icalls < MaxInvCalls
    /\ icalls' = icalls + 1
    /\ ilast' = [op |-> "start", registered |-> registered, callbacks |-> callbacks]
    /\ IF StartGuard(registered)
       THEN UNCHANGED <<registered, callbacks>>
       ELSE /\ callbacks' = RegisterAll(callbacks, roots, failing)
            /\ registered' = TRUE
    /\ UNCHANGED <<inv_in_houdini, roots, nfired, fired>>
    /\ UNCHANGED <<qvars, bvars, avars, evars, fvars, tvars, lvars>>

\* stop_invalidation, lines 155-183.
StopInvalidation ==
    /\ icalls < MaxInvCalls
    /\ icalls' = icalls + 1
    /\ ilast' = [op |-> "stop", registered |-> registered, callbacks |-> callbacks]
    /\ IF StopGuard(registered)
       THEN UNCHANGED <<registered, callbacks>>
       ELSE /\ callbacks' = UnregisterAll(callbacks, roots)
            /\ registered' = FALSE
    /\ UNCHANGED <<inv_in_houdini, roots, nfired, fired>>
    /\ UNCHANGED <<qvars, bvars, avars, evars, fvars, tvars, lvars>>

RECURSIVE Repeat(_, _)
Repeat(s, n) == IF n = 0 THEN <<>> ELSE s \o Repeat(s, n - 1)

\* The host reports an event of a target: every registration of the callback
\* runs and pushes what it pushes.
HostFires(target, name, kw) ==
    /\ callbacks[target] > 0
    /\ nfired < MaxFired
    /\ nfired' = nfired + 1
    /\ fired' = [target |-> target, name |-> name,
                 events |-> Repeat(CallbackOf(target, name, kw), callbacks[target])]
    /\ UNCHANGED <<inv_in_houdini, registered, callbacks, roots, icalls, ilast>>
    /\ UNCHANGED <<qvars, bvars, avars, evars, fvars, tvars, lvars>>

INext ==
    \/ \E failing \in Failings : StartInvalidation(failing)
    \/ StopInvalidation
    \/ \E target \in Targets :
          \E name \in NamesOf(target), kw \in KwargsOf(target) :
              HostFires(target, name, kw)

(***************************************************************************)
(* Part VII: the MCP server's call_tool (src/houdini_mcp/server.py): one   *)
(* tool call through the generic tool map, the bridge's answer, and the    *)
(* text result handed to the MCP client.  A text is the sequence of the    *)
(* pieces the f-strings put together.                                      *)
(***************************************************************************)
ToolNames ==
    {"houdini_ping", "houdini_node_get", "houdini_node_create",
     "houdini_geo_info", "houdini_nope"}

\* tool_map, lines 1326-1416.
ToolMap(name) ==
    CASE name = "houdini_ping" -> [method |-> "GET", endpoint |-> "/ping"]
      [] name = "houdini_node_get" -> [method |-> "GET", endpoint |-> "/node/get"]
      [] name = "houdini_node_create" -> [method |-> "POST", endpoint |-> "/node/create"]
      [] name = "houdini_geo_info" -> [method |-> "GET", endpoint |-> "/extract/geo_info"]
      [] OTHER -> [method |-> "", endpoint |-> ""]

\* What call_bridge meets: no connection, no answer in time, or a response:
\* an envelope send_json or send_error_json wrote.
NoEnvelope == [status |-> 0, error |-> "", code |-> "", message |-> ""]
BridgeReplies ==
    {[kind |-> "ConnectError", env |-> NoEnvelope],
     [kind |-> "TimeoutException", env |-> NoEnvelope]}
    \cup {[kind |-> "response", env |-> SendJson(o)] : o \in Outcomes \cup VggtOutcomes}
    \cup {[kind |-> "response", env |-> SendErrorJson(s, msg)] :
             s \in {400, 404, 500}, msg \in {"Missing parameter", "Unknown endpoint", "boom"}}
NoReplyYet == [kind |-> "", env |-> NoEnvelope]

\* str() of the value under the 'error' key: True for the JSON true.
PyStr(v) == IF v = "true" THEN "True" ELSE v

StatusText(status) ==
    CASE status = 400 -> "400"
      [] status = 404 -> "404"
      [] status = 500 -> "500"
      [] OTHER -> "200"

\* response.text: the JSON text of an envelope.
ResponseText(env) ==
    IF env.error = "" THEN <<"{", "success", "}">>
    ELSE IF env.code = "" THEN <<"{", "error", env.error, "}">>
    ELSE <<"{", "error", env.error, "code", env.code, "message", env.message, "}">>

\* error_result, line 109.
ErrorResult(message) == <<"ERROR: ">> \o message

\* call_tool lines 1431-1458 on what call_bridge returned or raised:
\* raise_for_status (line 98) raises HTTPStatusError on a 4xx / 5xx status.
CallToolText(reply) ==
    CASE reply.kind = "ConnectError" -> ErrorResult(<<"Cannot connect to Houdini">>)
      [] reply.kind = "TimeoutException" -> ErrorResult(<<"Request timed out">>)
      [] reply.kind = "response" /\ reply.env.status >= 400 ->
            ErrorResult(<<"HTTP error ", StatusText(reply.env.status), ": ">>
                        \o ResponseText(reply.env))
      [] reply.kind = "response" /\ reply.env.error # "" ->
            <<"Houdini error: ", PyStr(reply.env.error)>>
      [] OTHER -> ResponseText(reply.env)

TIdle ==
    /\ tool = ""
    /\ tool_reply = NoReplyYet
    /\ tpc = "idle"
    /\ tool_text = <<>>

TInit ==
    /\ tool \in ToolNames
    /\ tool_reply = NoReplyYet
    /\ tpc = "called"
    /\ tool_text = <<>>

\* Lines 1418-1419: a name the map does not have.
ToolUnknown ==
    /\ tpc = "called"
    /\ ToolMap(tool).endpoint = ""
    /\ tool_text' = ErrorResult(<<"Unknown tool: ", tool>>)
    /\ tpc' = "done"
    /\ UNCHANGED <<tool, tool_reply>>
    /\ UNCHANGED <<qvars, bvars, avars, evars, fvars, ivars, lvars>>

\* Lines 1421-1428: call_bridge, lines 90-99.
ToolCallBridge(reply) ==
    /\ tpc = "called"
    /\ ToolMap(tool).endpoint # ""
    /\ tool_reply' = reply
    /\ tpc' = "answered"
    /\ UNCHANGED <<tool, tool_text>>
    /\ UNCHANGED <<qvars, bvars, avars, evars, fvars, ivars, lvars>>

\* Lines 1431-1458.
ToolReturn ==
    /\ tpc = "answered"
    /\ tool_text' = CallToolText(tool_reply)
    /\ tpc' = "done"
    /\ UNCHANGED <<tool, tool_reply>>
    /\ UNCHANGED <<qvars, bvars, avars, evars, fvars, ivars, lvars>>

TNext ==
    \/ ToolUnknown
    \/ \E reply \in BridgeReplies : ToolCallBridge(reply)
    \/ ToolReturn

(***************************************************************************)
(* Part VIII: the bridge's life cycle (server.py, "Server Management"):    *)
(* threads inside start_bridge, stop_bridge, is_running and toggle_bridge, *)
(* the serve_forever thread of the running HTTPServer, and the host's main *)
(* thread, which runs handed-over callables only while it is inside none   *)
(* of these calls.                                                         *)
(***************************************************************************)
MaxLifeCalls == 3

\* The host's main thread (the shelf tool runs on it) and another thread.
LThreads == {"main", "other"}
Ports == {8765, 8766}

NoInstance == [id |-> 0, port |-> 0]
NoReturn == [op |-> "", value |-> "", instance |-> NoInstance, found |-> NoInstance,
             served |-> {}]

\* `with _server_lock:` is entered only while no thread holds the lock.
LockFreeAlways(t) == TRUE
LockFree(t) == server_lock = NoThread

\* The callbacks start_invalidation registers inside graphical Houdini, all
\* roots present, no call failing.
RegisteredByStart(cb) == RegisterAll(cb, ROOT_PATHS, {})

LIdle ==
    /\ server_lock = NoThread
    /\ server_instance = NoInstance
    /\ serving = {}
    /\ made = 0
    /\ shutdown_request = FALSE
    /\ srv = "idle"
    /\ lpc = [t \in LThreads |-> "idle"]
    /\ ltoggle = [t \in LThreads |-> FALSE]
    /\ lport = [t \in LThreads |-> 0]
    /\ lret = [t \in LThreads |-> NoReturn]
    /\ lcalls = 0
    /\ stopped = FALSE

\* A thread calls start_bridge(port), stop_bridge(), is_running() or
\* toggle_bridge().
StartBridge(t, port) ==
    /\ lpc[t] = "idle"
    /\ lcalls < MaxLifeCalls
    /\ lcalls' = lcalls + 1
    /\ lport' = [lport EXCEPT ![t] = port]
    /\ lpc' = [lpc EXCEPT ![t] = "s_lock"]
    /\ UNCHANGED <<server_lock, server_instance, serving, made, shutdown_request,
                   srv, ltoggle, lret, stopped>>
    /\ UNCHANGED <<qvars, bvars, avars, evars, fvars, ivars, tvars>>

StopBridge(t) ==
    /\ lpc[t] = "idle"
    /\ lcalls < MaxLifeCalls
    /\ lcalls' = lcalls + 1
    /\ lpc' = [lpc EXCEPT ![t] = "p_lock"]
    /\ UNCHANGED <<server_lock, server_instance, serving, made, shutdown_request,
                   srv, ltoggle, lport, lret, stopped>>
    /\ UNCHANGED <<qvars, bvars, avars, evars, fvars, ivars, tvars>>

IsRunning(t) ==
    /\ lpc[t] = "idle"
    /\ lcalls < MaxLifeCalls
    /\ lcalls' = lcalls + 1
    /\ lpc' = [lpc EXCEPT ![t] = "r_lock"]
    /\ UNCHANGED <<server_lock, server_instance, serving, made, shutdown_request,
                   srv, ltoggle, lport, lret, stopped>>
    /\ UNCHANGED <<qvars, bvars, avars, evars, fvars, ivars, tvars>>

\* toggle_bridge, lines 2524-2529: is_running() first; start_bridge() is
\* called with the default port.
ToggleBridge(t) ==
    /\ lpc[t] = "idle"
    /\ lcalls < MaxLifeCalls
    /\ lcalls' = lcalls + 1
    /\ ltoggle' = [ltoggle EXCEPT ![t] = TRUE]
    /\ lport' = [lport EXCEPT ![t] = 8765]
    /\ lpc' = [lpc EXCEPT ![t] = "r_lock"]
    /\ UNCHANGED <<server_lock, server_instance, serving, made, shutdown_request,
                   srv, lret, stopped>>
    /\ UNCHANGED <<qvars, bvars, avars, evars, fvars, ivars, tvars>>

\* `with _server_lock:` of any of the three functions (lines 2473, 2506, 2516).
LockAcquire(t) ==
    /\ lpc[t] \in {"s_lock", "p_lock", "r_lock"}
    /\ LockFree(t)
    /\ server_lock' = t
    /\ lpc' = [lpc EXCEPT ![t] = CASE lpc[t] = "s_lock" -> "s_check"
                                   [] lpc[t] = "p_lock" -> "p_check"
                                   [] OTHER -> "r_read"]
    /\ UNCHANGED <<server_instance, serving, made, shutdown_request, srv, ltoggle,
                   lport, lret, lcalls, stopped>>
    /\ UNCHANGED <<qvars, bvars, avars, evars, fvars, ivars, tvars>>

\* is_running, line 2517: the value is read, the lock released; inside
\* toggle_bridge the value decides which call follows.
IsRunningReturn(t) ==
    /\ lpc[t] = "r_read"
    /\ server_lock' = NoThread
    /\ lret' = [lret EXCEPT ![t] =
                  [op |-> "is_running",
                   value |-> IF server_instance # NoInstance THEN "True" ELSE "False",
                   instance |-> NoInstance,
                   found |-> server_instance,
                   served |-> serving]]
    /\ lpc' = [lpc EXCEPT ![t] =
                  IF ltoggle[t]
                  THEN (IF server_instance # NoInstance THEN "p_lock" ELSE "s_lock")
                  ELSE "idle"]
    /\ ltoggle' = [ltoggle EXCEPT ![t] = FALSE]
    /\ UNCHANGED <<server_instance, serving, made, shutdown_request, srv, lport,
                   lcalls, stopped>>
    /\ UNCHANGED <<qvars, bvars, avars, evars, fvars, ivars, tvars>>

\* start_bridge lines 2474-2476: already running, the instance is returned.
StartAlreadyRunning(t) ==
    /\ lpc[t] = "s_check"
    /\ server_instance # NoInstance
    /\ server_lock' = NoThread
    /\ lret' = [lret EXCEPT ![t] = [op |-> "start", value |-> "instance",
                                    instance |-> server_instance,
                                    found |-> server_instance,
                                    served |-> serving]]
    /\ lpc' = [lpc EXCEPT ![t] = "idle"]
    /\ UNCHANGED <<server_instance, serving, made, shutdown_request, srv, ltoggle,
                   lport, lcalls, stopped>>
    /\ UNCHANGED <<qvars, bvars, avars, evars, fvars, ivars, tvars>>

\* Line 2474 with no instance: on to the constructor.
StartCheck(t) ==
    /\ lpc[t] = "s_check"
    /\ server_instance = NoInstance
    /\ lpc' = [lpc EXCEPT ![t] = "s_create"]
    /\ UNCHANGED <<server_lock, server_instance, serving, made, shutdown_request,
                   srv, ltoggle, lport, lret, lcalls, stopped>>
    /\ UNCHANGED <<qvars, bvars, avars, evars, fvars, ivars, tvars>>

\* Lines 2478-2480: HTTPServer((host, port), ...) binds and listens, the
\* serve_forever thread starts, the lock is released.
StartCreate(t) ==
    /\ lpc[t] = "s_create"
    /\ made' = made + 1
    /\ server_instance' = [id |-> made + 1, port |-> lport[t]]
    /\ serving' = serving \cup {[id |-> made + 1, port |-> lport[t]]}
    /\ shutdown_request' = FALSE
    /\ srv' = "idle"
    /\ server_lock' = IF server_lock = t THEN NoThread ELSE server_lock
    /\ stopped' = FALSE
    /\ lpc' = [lpc EXCEPT ![t] = "s_plugin"]
    /\ UNCHANGED <<ltoggle, lport, lret, lcalls>>
    /\ UNCHANGED <<qvars, bvars, avars, evars, fvars, ivars, tvars>>

\* Line 2478 when the port cannot be bound: HTTPServer raises OSError, the
\* assignment does not happen, the with block releases the lock and the
\* exception leaves start_bridge.
StartCreateFails(t) ==
    /\ lpc[t] = "s_create"
    /\ server_lock' = IF server_lock = t THEN NoThread ELSE server_lock
    /\ lret' = [lret EXCEPT ![t] = [op |-> "start", value |-> "OSError",
                                    instance |-> NoInstance,
                                    found |-> server_instance,
                                    served |-> serving]]
    /\ lpc' = [lpc EXCEPT ![t] = "idle"]
    /\ UNCHANGED <<server_instance, serving, made, shutdown_request, srv, ltoggle,
                   lport, lcalls, stopped>>
    /\ UNCHANGED <<qvars, bvars, avars, evars, fvars, ivars, tvars>>

\* Lines 2482-2489, outside the lock: the plugin's handlers are registered
\* and start_invalidation is entered; its line 119 reads _registered.
StartPlugin(t) ==
    /\ lpc[t] = "s_plugin"
    /\ lpc' = [lpc EXCEPT ![t] = IF StartGuard(registered) THEN "s_return" ELSE "s_register"]
    /\ UNCHANGED <<server_lock, server_instance, serving, made, shutdown_request,
                   srv, ltoggle, lport, lret, lcalls, stopped>>
    /\ UNCHANGED <<qvars, bvars, avars, evars, fvars, ivars, tvars>>

\* start_invalidation lines 123-152.
StartRegister(t) ==
    /\ lpc[t] = "s_register"
    /\ callbacks' = RegisteredByStart(callbacks)
    /\ registered' = TRUE
    /\ lpc' = [lpc EXCEPT ![t] = "s_return"]
    /\ UNCHANGED <<inv_in_houdini, roots, icalls, ilast, nfired, fired>>
    /\ UNCHANGED <<server_lock, server_instance, serving, made, shutdown_request,
                   srv, ltoggle, lport, lret, lcalls, stopped>>
    /\ UNCHANGED <<qvars, bvars, avars, evars, fvars, tvars>>

\* Line 2499: return _server_instance (the global as it is now).
StartReturn(t) ==
    /\ lpc[t] = "s_return"
    /\ lret' = [lret EXCEPT ![t] = [op |-> "start", value |-> "instance",
                                    instance |-> server_instance,
                                    found |-> NoInstance,
                                    served |-> serving]]
    /\ lpc' = [lpc EXCEPT ![t] = "idle"]
    /\ UNCHANGED <<server_lock, server_instance, serving, made, shutdown_request,
                   srv, ltoggle, lport, lcalls, stopped>>
    /\ UNCHANGED <<qvars, bvars, avars, evars, fvars, ivars, tvars>>

\* stop_bridge lines 2506-2507 with no instance: nothing to do.
StopNotRunning(t) ==
    /\ lpc[t] = "p_check"
    /\ server_instance = NoInstance
    /\ server_lock' = NoThread
    /\ lret' = [lret EXCEPT ![t] = [op |-> "stop", value |-> "None",
                                    instance |-> NoInstance,
                                    found |-> server_instance,
                                    served |-> serving]]
    /\ lpc' = [lpc EXCEPT ![t] = "idle"]
    /\ UNCHANGED <<server_instance, serving, made, shutdown_request, srv, ltoggle,
                   lport, lcalls, stopped>>
    /\ UNCHANGED <<qvars, bvars, avars, evars, fvars, ivars, tvars>>

\* Line 2508: _server_instance.shutdown() asks the serve_forever loop to stop
\* and waits, holding _server_lock, until the loop has left.
StopShutdown(t) ==
    /\ lpc[t] = "p_check"
    /\ server_instance # NoInstance
    /\ shutdown_request' = TRUE
    /\ lpc' = [lpc EXCEPT ![t] = "p_wait"]
    /\ UNCHANGED <<server_lock, server_instance, serving, made, srv, ltoggle,
                   lport, lret, lcalls, stopped>>
    /\ UNCHANGED <<qvars, bvars, avars, evars, fvars, ivars, tvars>>

\* The loop is between two requests, sees the flag and leaves: shutdown()
\* returns; lines 2509-2511.  server_close() is not called: the socket of the
\* stopped instance is closed when the last reference to the instance goes;
\* `serving` holds the instances that accept and answer requests.
StopReturn(t) ==
    /\ lpc[t] = "p_wait"
    /\ srv = "idle"
    /\ serving' = serving \ {server_instance}
    /\ lret' = [lret EXCEPT ![t] = [op |-> "stop", value |-> "None",
                                    instance |-> NoInstance,
                                    found |-> server_instance,
                                    served |-> serving \ {server_instance}]]
    /\ server_instance' = NoInstance
    /\ shutdown_request' = FALSE
    /\ server_lock' = IF server_lock = t THEN NoThread ELSE server_lock
    /\ stopped' = TRUE
    /\ lpc' = [lpc EXCEPT ![t] = "idle"]
    /\ UNCHANGED <<made, srv, ltoggle, lport, lcalls>>
    /\ UNCHANGED <<qvars, bvars, avars, evars, fvars, ivars, tvars>>

\* The serve_forever thread takes a request whose handler hands a callable to
\* the main thread (require_main_thread, line 50) and blocks until it ran.
ServeRequest ==
    /\ serving # {}
    /\ ~shutdown_request
    /\ srv = "idle"
    /\ srv' = "blocked"
    /\ UNCHANGED <<server_lock, server_instance, serving, made, shutdown_request,
                   lpc, ltoggle, lport, lret, lcalls, stopped>>
    /\ UNCHANGED <<qvars, bvars, avars, evars, fvars, ivars, tvars>>

\* The main thread, back in the host's event loop, runs the callable; the
\* handler answers and returns to the loop.
MainRunsCallable ==
    /\ srv = "blocked"
    /\ lpc["main"] = "idle"
    /\ srv' = "idle"
    /\ UNCHANGED <<server_lock, server_instance, serving, made, shutdown_request,
                   lpc, ltoggle, lport, lret, lcalls, stopped>>
    /\ UNCHANGED <<qvars, bvars, avars, evars, fvars, ivars, tvars>>

LNext ==
    \/ \E t \in LThreads, port \in Ports : StartBridge(t, port)
    \/ \E t \in LThreads : StopBridge(t)
    \/ \E t \in LThreads : IsRunning(t)
    \/ \E t \in LThreads : ToggleBridge(t)
    \/ \E t \in LThreads : LockAcquire(t)
    \/ \E t \in LThreads : IsRunningReturn(t)
    \/ \E t \in LThreads : StartAlreadyRunning(t)
    \/ \E t \in LThreads : StartCheck(t)
    \/ \E t \in LThreads : StartCreate(t)
    \/ \E t \in LThreads : StartCreateFails(t)
    \/ \E t \in LThreads : StartPlugin(t)
    \/ \E t \in LThreads : StartRegister(t)
    \/ \E t \in LThreads : StartReturn(t)
    \/ \E t \in LThreads : StopNotRunning(t)
    \/ \E t \in LThreads : StopShutdown(t)
    \/ \E t \in LThreads : StopReturn(t)
    \/ ServeRequest
    \/ MainRunsCallable

YIdle == IIdle /\ TIdle /\ LIdle

(***************************************************************************)
(* Specification of the event queue: producer threads (host callbacks)     *)
(* and drainer threads (polls of /extract/events, direct drain_events      *)
(* callers) interleave at the granularity of the statements above.         *)
(***************************************************************************)
InitQueue ==
    /\ QInit
    /\ BInitIdle
    /\ in_houdini = FALSE
    /\ ui_available = FALSE
    /\ extraction_handlers = {}
    /\ AIdle
    /\ EIdle
    /\ FIdle
    /\ YIdle

SpecQueue == InitQueue /\ [][QNext]_vars

RECURSIVE SumOver(_, _)
SumOver(S, f) ==
    IF S = {} THEN 0
    ELSE LET x == CHOOSE y \in S : TRUE IN f[x] + SumOver(S \ {x}, f)

\* Number of _push_event calls whose append (line 60) has executed.
AppendedCount ==
    SumOver(Producers,
            [p \in Producers |->
                IF qpc[p] \in {"p_lock", "p_append"} THEN pushes[p] - 1 ELSE pushes[p]])

\* C1: the queue never holds more than MAX_QUEUE_SIZE events once a push has
\* finished (the one extra element exists only between the append and the
\* trim, inside the lock); a push that finds the queue full leaves it holding
\* the previous events minus the oldest, followed by the new event; and no
\* step of a push waits for space: with the lock in hand (or free) the next
\* statement of the push can always run, whatever the queue's length.
C1_QueueBounded ==
    /\ [](Len(event_queue) <= MAX_QUEUE_SIZE
            \/ /\ Len(event_queue) = MAX_QUEUE_SIZE + 1
               /\ \E p \in Producers : qpc[p] = "p_trim" /\ event_lock = p)
    /\ [](\A p \in Producers :
            /\ (qpc[p] = "p_lock" /\ event_lock = NoThread) => ENABLED PushAcquire(p)
            /\ qpc[p] = "p_append" => ENABLED PushAppend(p)
            /\ qpc[p] = "p_trim" => ENABLED PushTrim(p))
    /\ [][\A p \in Producers :
            (qpc[p] = "p_trim" /\ qpc'[p] = "idle") =>
                /\ Len(event_queue') <= MAX_QUEUE_SIZE
                /\ event_queue'[Len(event_queue')] = pevent[p]
                /\ Len(event_queue) = MAX_QUEUE_SIZE + 1 =>
                       event_queue' = SubSeq(event_queue, 2, Len(event_queue))
                /\ Len(event_queue) <= MAX_QUEUE_SIZE => event_queue' = event_queue]_vars

\* A push completed on a full queue: the oldest event was evicted.
C1_Witness ==
    /\ Len(event_queue) = MAX_QUEUE_SIZE
    /\ evicted # {}
    /\ event_lock = NoThread

\* C2: what a drain copies is exactly the last MAX_QUEUE_SIZE events appended
\* since the queue was last cleared, in append order (all of them when fewer
\* were appended); in particular a drain that follows a drain with no push in
\* between copies the empty list.
C2_DrainLastC ==
    \A d \in Drainers :
        qpc[d] = "d_clear" =>
            /\ devents[d] = LastN(MAX_QUEUE_SIZE, sinceClear)
            /\ Len(devents[d]) <= MAX_QUEUE_SIZE
            /\ sinceClear = <<>> => devents[d] = <<>>

\* A drain after N > MAX_QUEUE_SIZE pushes with no drain in between.
C2_Witness ==
    \E d \in Drainers :
        /\ qpc[d] = "d_clear"
        /\ Len(sinceClear) > MAX_QUEUE_SIZE
        /\ Len(devents[d]) = MAX_QUEUE_SIZE

\* C3: no event is returned by two drains (nor twice by one), an event a drain
\* has taken is no longer in the queue, and every poll response's count is
\* the number of events it carries.
C3_NoDoubleDelivery ==
    /\ NoDuplicates(delivered)
    /\ \A d \in Drainers :
          /\ response[d].count = Len(response[d].events)
          /\ qpc[d] = "d_return" =>
                /\ Range(devents[d]) \cap Range(event_queue) = {}
                /\ \A e \in Drainers \ {d} :
                      qpc[e] \in {"d_clear", "d_return"} =>
                          Range(devents[d]) \cap Range(devents[e]) = {}
          /\ \A e \in Drainers \ {d} :
                Range(response[d].events) \cap Range(response[e].events) = {}
    /\ Range(delivered) \cap Range(event_queue) = {}

\* Two drainers have both returned events.
C3_Witness ==
    /\ \A d \in Drainers : response[d].count > 0
    /\ \E d, e \in Drainers : d # e /\ qpc[d] = "d_return" /\ qpc[e] = "d_copy"

\* C4: every appended event is in exactly one place: taken by a drain, still
\* queued, or evicted; so the number delivered is the number pushed minus the
\* number evicted once the queue is drained.  No event is delivered twice or
\* both evicted and delivered, and the events of one producer are delivered
\* in push order (drains ordered by their critical sections, events within a
\* drain by their position in the returned list).
C4_Conservation ==
    /\ AppendedCount = Len(delivered) + Len(event_queue) + Cardinality(evicted)
    /\ NoDuplicates(delivered)
    /\ Range(delivered) \cap evicted = {}
    /\ \A i, j \in 1..Len(delivered) :
          (i < j /\ delivered[i].producer = delivered[j].producer) =>
              delivered[i].seq < delivered[j].seq
    /\ ((\A t \in QThreads : qpc[t] = "idle") /\ event_queue = <<>>) =>
          Len(delivered) = AppendedCount - Cardinality(evicted)

\* Everything pushed, some of it evicted, the rest delivered, with events of
\* both producers among the delivered.
C4_Witness ==
    /\ created = MaxPushes
    /\ \A t \in QThreads : qpc[t] = "idle"
    /\ event_queue = <<>>
    /\ evicted # {}
    /\ \A p \in Producers : \E i \in 1..Len(delivered) : delivered[i].producer = p
    /\ Len(delivered) = MaxPushes - Cardinality(evicted)

(***************************************************************************)
(* Specification of the bridge: requests arrive, are dispatched, and their *)
(* host callables run on the main thread (graphical Houdini) or in place.  *)
(***************************************************************************)
InitBridge == BInit /\ QInit /\ AIdle /\ EIdle /\ FIdle /\ YIdle

SpecBridge == InitBridge /\ [][BNext]_vars

IsPrefix(s, t) == Len(s) <= Len(t) /\ \A i \in 1..Len(s) : s[i] = t[i]

\* The host has no interactive session: not inside Houdini, or no UI.
HostUnavailable == ~(in_houdini /\ ui_available)

\* The (method, path) of the request is in a route table.
KnownRoute(r) ==
    Lookup(r) # "none"

\* The request's body is syntactically valid JSON (a GET has no body; a
\* request announcing no body is read as the empty object).
ValidJson(r) ==
    \/ r.method = "GET"
    \/ r.length = "zero"
    \/ r.length = "ok" /\ r.body \in {"object_full", "object_missing", "non_object"}

\* The POST body cannot be parsed as JSON, or it reaches a route without a
\* parameter that route requires.
Malformed(r) ==
    /\ r.method = "POST"
    /\ r.length = "ok"
    /\ \/ r.body \in {"bad_json", "bad_utf8"}
       \/ /\ r.body \in {"object_missing", "non_object"}
          /\ r.route \in POST_ROUTES
          /\ RequiresParam(r.route)

\* Slack allowed on top of the timeout, seconds.
TimeoutMargin == 5

\* C5: at most one host callable executes at any time, the main thread runs
\* only callables that were handed to it and whose request thread is blocked
\* on them, and it starts them in the order in which they were handed over.
C5_Serialized ==
    /\ Cardinality(Executing) <= 1
    /\ IsPrefix(start_log, handoff_log)
    /\ host_cur # NoThread => called[host_cur] /\ hpc[host_cur] = "waiting"
    /\ \A i \in 1..Len(main_queue) : hpc[main_queue[i]] = "waiting"

\* The main thread is executing the second of two callables handed to it.
C5_Witness ==
    /\ Len(start_log) = 2
    /\ host_cur # NoThread

\* C6: a request thread blocked in the hand-off is released with a TIMEOUT
\* failure once the timeout (plus a bounded margin) has elapsed: it is never
\* still blocked after TIMEOUT + TimeoutMargin seconds.
C6_TimeoutBound ==
    \A h \in Activations :
        hpc[h] = "waiting" => waited[h] <= TIMEOUT + TimeoutMargin

C10_MalformedInvalidParams ==
    \A h \in Activations :
        (hpc[h] = "done" /\ Malformed(req[h])) =>
            /\ ~called[h]
            /\ ~crashed[h]
            /\ Len(sent[h]) = 1
            /\ sent[h][1].status = 400
            /\ sent[h][1].code = "INVALID_PARAMS"

\* The closed vocabulary of error codes.
ErrorVocabulary ==
    {"NODE_NOT_FOUND", "PARM_NOT_FOUND", "TYPE_MISMATCH", "COOK_ERROR",
     "EXTRACTION_FAILED", "INVALID_PARAMS", "NOT_FOUND", "INTERNAL_ERROR",
     "HOST_UNAVAILABLE", "TIMEOUT"}

\* C11: every failure the bridge sends (an envelope with an 'error' key) has
\* the shape {error: true, code, message} with the code in the closed
\* vocabulary and a message; the failure's text is never the bare value of
\* the 'error' key.
C11_ClosedVocabulary ==
    \A h \in Activations :
        \A i \in 1..Len(sent[h]) :
            sent[h][i].error # "" =>
                /\ sent[h][i].error = "true"
                /\ sent[h][i].code \in ErrorVocabulary
                /\ sent[h][i].message # ""

\* The callable found no node at the requested path.
MissingResource(o) ==
    \/ o.kind = "contract_error" /\ o.code = "NODE_NOT_FOUND"
    \/ o.kind = "bare_error" /\ o.message = "Node not found"

\* C12: a finished request whose (method, path) is in no route table was
\* answered with NOT_FOUND on status 404; a request on a known route is never
\* answered with that status or that code, and when its callable found no
\* node the answer carries NODE_NOT_FOUND or PARM_NOT_FOUND.
C12_NotFoundOnlyForRoutes ==
    \A h \in Activations :
        hpc[h] = "done" =>
            /\ ~KnownRoute(req[h]) =>
                  /\ Len(sent[h]) = 1
                  /\ sent[h][1].status = 404
                  /\ sent[h][1].code = "NOT_FOUND"
            /\ KnownRoute(req[h]) =>
                  \A i \in 1..Len(sent[h]) :
                      /\ sent[h][i].status # 404
                      /\ sent[h][i].code # "NOT_FOUND"
                      /\ MissingResource(outcome[h]) =>
                            sent[h][i].code \in {"NODE_NOT_FOUND", "PARM_NOT_FOUND"}

\* C14: the primary table is looked up first and the plugin's table only when
\* the primary has no entry: a GET whose route is in the primary table is
\* served by the primary handler, also when the plugin's table has the same
\* route, and with or without a plugin it is treated the same way (parameter
\* check, then the callable); a plugin handler serves only GETs on routes
\* the primary table lacks; a POST never reaches the plugin's table; and with
\* no plugin registered a plugin route is answered NOT_FOUND without any
\* callable being run.
C14_PrimaryFirst ==
    \A h \in Activations :
        /\ table[h] = "plugin" =>
              /\ req[h].method = "GET"
              /\ req[h].route \notin GET_ROUTES
              /\ req[h].route \in extraction_handlers
        /\ (hpc[h] = "done" /\ req[h].method = "GET" /\ req[h].route \in GET_ROUTES) =>
              /\ table[h] = "primary"
              /\ called[h] <=> HandlerEntry(req[h].route, req[h].body) = "run"
              /\ ~called[h] => sent[h] = <<SendErrorJson(400, "Missing parameter")>>
        /\ (hpc[h] = "done" /\ extraction_handlers = {} /\ req[h].method = "GET"
                /\ req[h].route \in EXT_ROUTES) =>
              /\ table[h] = "none"
              /\ ~called[h]
              /\ sent[h] = <<SendErrorJson(404, "Unknown route")>>

\* A GET on a route that both tables hold was served by the primary handler,
\* which ran its callable.
C14_Witness ==
    \E h \in Activations :
        /\ hpc[h] = "done"
        /\ req[h].method = "GET"
        /\ req[h].route \in GET_ROUTES \cap extraction_handlers
        /\ table[h] = "primary"
        /\ called[h]

(***************************************************************************)
(* Specification of a batch request served inside graphical Houdini.       *)
(***************************************************************************)
InitBatch ==
    /\ AInit
    /\ EIdle
    /\ FIdle
    /\ QInit
    /\ BInitIdle
    /\ in_houdini = TRUE
    /\ ui_available = TRUE
    /\ extraction_handlers = {}
    /\ YIdle

SpecBatch == InitBatch /\ [][ANext]_vars

\* C13: a finished batch of N >= 1 operations was answered with exactly N
\* results and count = N, results[i].index = i and results[i].type the type
\* of the i-th operation; every operation was executed, in order; an
\* operation that threw has an error result with a code at its own index.
C13_BatchAligned ==
    (bpc = "done" /\ Len(operations) >= 1) =>
        /\ breply.status = 200
        /\ breply.count = Len(operations)
        /\ Len(breply.results) = Len(operations)
        /\ executed = [i \in 1..Len(operations) |-> i - 1]
        /\ \A i \in 1..Len(breply.results) :
              /\ breply.results[i].index = i - 1
              /\ operations[i].shape = "object" =>
                    breply.results[i].type = operations[i].type
              /\ breply.results[i].result.error # "" =>
                    breply.results[i].result.code \in ErrorVocabulary

(***************************************************************************)
(* Specification of one attrib_read request whose attribute was read, and  *)
(* of the client decoding what was staged.                                 *)
(***************************************************************************)
InitExtract ==
    /\ EInit
    /\ AIdle
    /\ FIdle
    /\ QInit
    /\ BInitIdle
    /\ in_houdini = TRUE
    /\ ui_available = TRUE
    /\ extraction_handlers = EXT_ROUTES
    /\ YIdle

SpecExtract == InitExtract /\ [][ENext]_vars

\* Both query parameters are integers (or absent).
ParamsParse ==
    ~ParseInt(params.start, 0).raised /\ ~ParseInt(params.count, -1).raised

\* C15: once handle_attrib_read has finished on parameters it could parse,
\* its result has exactly one of the two forms, chosen by the estimate alone:
\* inline (nested arrays) when 4 bytes per returned value stay strictly below
\* INLINE_THRESHOLD, a FileRef when they reach it.
C15_InlineOrStaged ==
    (xpc \in {"staged", "done"} /\ ParamsParse) =>
        /\ xresult.form \in {"inline", "file_ref"}
        /\ xresult.form = "inline" <=> 4 * Len(sliced.values) < INLINE_THRESHOLD
        /\ xresult.form = "file_ref" <=> 4 * Len(sliced.values) >= INLINE_THRESHOLD
        /\ xresult.form = "inline" =>
              xresult.values = Reshape(sliced.values, attrib.asize)
        /\ xresult.form = "file_ref" => xresult.path \in DOMAIN files

\* Number of elements of the attribute read.
TotalElements == Len(attrib.values) \div attrib.asize

\* The elements the request names: those with 0-based index in
\* [start, min(start + count, total)), count = -1 standing for total - start.
RequestedIndexes ==
    LET start == ParseInt(params.start, 0).val
        count == ParseInt(params.count, -1).val
        stop == IF count = -1 THEN TotalElements
                ELSE Min(start + count, TotalElements)
    IN {i \in 0..(TotalElements - 1) : start <= i /\ i < stop}

\* The flat values of the elements with index lo..hi.
ElementValues(lo, hi) ==
    [j \in 1..((hi - lo + 1) * attrib.asize) |-> attrib.values[lo * attrib.asize + j]]

\* The count the result reports: in the inline object, or in the sidecar.
ReportedCount ==
    IF xresult.form = "file_ref" THEN files[xresult.metadata_path].meta.count
    ELSE xresult.count

\* C16: whatever integers start and count are, attrib_read does not fail: it
\* returns exactly the requested elements (none when the range is empty),
\* and the count it reports is the number of elements returned, between 0
\* and total.
C16_RangeClamped ==
    (xpc \in {"staged", "done"} /\ ParamsParse /\ attrib.storage = 32) =>
        /\ xresult.form \in {"inline", "file_ref"}
        /\ Len(sliced.values) = Cardinality(RequestedIndexes) * attrib.asize
        /\ RequestedIndexes # {} =>
              LET lo == CHOOSE i \in RequestedIndexes :
                            \A k \in RequestedIndexes : i <= k
              IN sliced.values = ElementValues(lo, lo + Cardinality(RequestedIndexes) - 1)
        /\ ReportedCount = Cardinality(RequestedIndexes)
        /\ 0 <= ReportedCount /\ ReportedCount <= TotalElements

\* C17: when a 32-bit float or 32-bit int array was staged and the client has
\* decoded the file at FileRef.path as the sidecar declares (encoding, count,
\* tuple size), the decoded values are the values that were staged, in order.
C17_RoundTrip ==
    (xpc = "done" /\ xresult.form = "file_ref"
        /\ attrib.data_type \in {"Float", "Int"} /\ attrib.storage = 32) =>
        /\ decoded.ok
        /\ decoded.values = sliced.values

(***************************************************************************)
(* Specification of the staging directory.                                 *)
(***************************************************************************)
InitFiles ==
    /\ FIdle
    /\ EIdle
    /\ AIdle
    /\ QInit
    /\ BInitIdle
    /\ in_houdini = TRUE
    /\ ui_available = TRUE
    /\ extraction_handlers = EXT_ROUTES
    /\ YIdle

SpecFiles == InitFiles /\ [][FNext]_vars

C19_NoDeleteWhileWriting == lost = {}

\* C20: a staged file is reclaimed without the client: no file handed to a
\* client is still in the directory more than GcMargin seconds after its
\* DEFAULT_TTL seconds since the last modification have elapsed.
C20_ReclaimedAfterTtl ==
    \A p \in staged :
        p \in DOMAIN fs => now - fs[p].mtime <= DEFAULT_TTL + GcMargin

\* The payload handle_attrib_read hands to write_file_ref_pair (lines 255, 272).
StagedPayload ==
    IF attrib.data_type = "String" THEN JsonContent(sliced.values)
    ELSE BinContent(Pack(attrib.data_type, sliced.values))

\* C21: every write of write_file_ref_pair goes to a path of its own: once the
\* call has returned a FileRef, path and metadata_path name two files, the
\* file at path holds exactly the payload (size_bytes bytes) and the file at
\* metadata_path holds the metadata.
C21_FreshFiles ==
    xresult.form = "file_ref" =>
        /\ xresult.path # xresult.metadata_path
        /\ xresult.path \in DOMAIN files
        /\ xresult.metadata_path \in DOMAIN files
        /\ files[xresult.path] = StagedPayload
        /\ SizeBytes(files[xresult.path]) = xresult.size_bytes
        /\ files[xresult.metadata_path].kind = "meta"

\* C28: events are queued and delivered in the order of their timestamps: of
\* two events in the queue, or delivered by one drain or by successive
\* drains, the earlier one has a timestamp no later than the later one, also
\* when several threads push concurrently.
C28_TimestampOrder ==
    /\ \A i, j \in 1..Len(event_queue) :
          i < j => event_queue[i].timestamp <= event_queue[j].timestamp
    /\ \A i, j \in 1..Len(delivered) :
          i < j => delivered[i].timestamp <= delivered[j].timestamp

InitInval ==
    /\ IInit
    /\ TIdle
    /\ LIdle
    /\ QInit
    /\ BInitIdle
    /\ in_houdini = TRUE
    /\ ui_available = TRUE
    /\ extraction_handlers = EXT_ROUTES
    /\ AIdle
    /\ EIdle
    /\ FIdle

SpecInval == InitInval /\ [][INext]_vars

\* C22: over any sequence of start_invalidation and stop_invalidation calls
\* every host callback is registered at most once: a start while observing
\* registers nothing more, a stop while observing leaves no registration, and
\* a stop while not observing changes nothing.
C22_RegisteredAtMostOnce ==
    /\ \A k \in Targets : callbacks[k] <= 1
    /\ (ilast.op = "start" /\ ilast.registered) =>
          registered /\ callbacks = ilast.callbacks
    /\ (ilast.op = "stop" /\ ilast.registered) =>
          ~registered /\ \A k \in Targets : callbacks[k] = 0
    /\ (ilast.op = "stop" /\ ~ilast.registered) =>
          ~registered /\ callbacks = ilast.callbacks

\* start_invalidation was called while the callbacks were registered.
C22_Witness ==
    /\ ilast.op = "start"
    /\ ilast.registered
    /\ \E k \in Targets : callbacks[k] = 1

\* C23: every event a host callback pushed has an event_type of the seven and
\* a scope of the three, and was caused by a variant the module maps; a
\* variant without a mapping makes the callbacks push nothing.
C23_ClosedEventVocabulary ==
    /\ \A i \in 1..Len(fired.events) :
          /\ fired.events[i].event_type \in EVENT_TYPES
          /\ fired.events[i].scope \in SCOPES
          /\ fired.name \in MappedNames
    /\ (fired.target # "" /\ fired.name \notin MappedNames) => fired.events = <<>>

\* The host reported a node event without a mapping to a registered callback
\* and nothing was pushed.
C23_Witness ==
    /\ nfired > 0
    /\ fired.target \in ROOT_PATHS
    /\ fired.name \notin MappedNames
    /\ fired.events = <<>>

InitTool ==
    /\ TInit
    /\ IIdle
    /\ LIdle
    /\ QInit
    /\ BInitIdle
    /\ in_houdini = TRUE
    /\ ui_available = TRUE
    /\ extraction_handlers = EXT_ROUTES
    /\ AIdle
    /\ EIdle
    /\ FIdle

SpecTool == InitTool /\ [][TNext]_vars

\* The text reports an error.
ReportsError(text) ==
    Len(text) >= 1 /\ text[1] \in {"ERROR: ", "Houdini error: "}

\* C25: when the bridge answered a tool of the generic tool map with a
\* contract error {error: true, code, message}, the text call_tool returns
\* reports an error and contains the error's code.
C25_ErrorCodePropagated ==
    (tpc = "done" /\ tool_reply.kind = "response"
        /\ tool_reply.env.error = "true" /\ tool_reply.env.code # "") =>
        /\ ReportsError(tool_text)
        /\ tool_reply.env.code \in Range(tool_text)

\* C26: the sub-operations of one batch request run inside one call of its
\* callable (one hand-off, one undo group): the callable begins once, and
\* between two host calls of a request that executed a sub-operation no host
\* call of another request runs.
C26_BatchOneHandOff ==
    /\ \A i, j \in 1..Len(host_trace) :
          (i < j /\ host_trace[i].id = host_trace[j].id
                 /\ \E n \in 1..Len(host_trace) :
                        host_trace[n].id = host_trace[i].id /\ host_trace[n].what = "op")
             => /\ \A k \in i..j : host_trace[k].id = host_trace[i].id
                /\ host_trace[j].what # "begin"
    /\ \A n \in 1..Len(host_trace) :
          host_trace[n].what = "op" =>
              /\ n > 1
              /\ host_trace[n - 1].id = host_trace[n].id
              /\ host_trace[n - 1].what \in {"begin", "op"}
    /\ \A h \in Activations :
          IsBatch(req[h]) =>
              Cardinality({n \in 1..Len(handoff_log) : handoff_log[n] = req[h].id}) <= 1

\* A batch has executed two sub-operations and returned, and the callable of
\* another request has run as well.
C26_Witness ==
    \E n \in 1..Len(host_trace) :
        /\ n + 2 <= Len(host_trace)
        /\ host_trace[n].what = "op"
        /\ host_trace[n + 1].what = "op"
        /\ host_trace[n + 2].what = "end"
        /\ \E k \in 1..Len(host_trace) : host_trace[k].id # host_trace[n].id

\* The bridge module loaded inside graphical Houdini with the extraction
\* plugin installed, not started yet.
InitLife ==
    /\ LIdle
    /\ inv_in_houdini = TRUE
    /\ registered = FALSE
    /\ callbacks = [k \in Targets |-> 0]
    /\ roots = ROOT_PATHS
    /\ icalls = 0
    /\ ilast = NoCall
    /\ nfired = 0
    /\ fired = NoFired
    /\ TIdle
    /\ QInit
    /\ BInitIdle
    /\ in_houdini = TRUE
    /\ ui_available = TRUE
    /\ extraction_handlers = {}
    /\ AIdle
    /\ EIdle
    /\ FIdle

SpecLife == InitLife /\ [][LNext]_vars


\* C27: once stop_bridge has shut the server down, none of the callbacks the
\* bridge's start registered with the host remains registered.
C27_NoCallbacksAfterStop ==
    stopped => \A k \in Targets : callbacks[k] = 0

\* C29: stop_bridge called on the host's main thread always returns: the main
\* thread is never waiting inside shutdown() while the serving thread is
\* blocked in a handler that waits for the main thread.
C29_StopReturnsOnHostThread ==
    ~(lpc["main"] = "p_wait" /\ srv = "blocked")

\* C30: at most one listener is served at any time and it is the recorded
\* instance; is_running() answers True exactly when one is served;
\* start_bridge on a running bridge returns the running instance, whatever
\* port was passed, and constructs nothing; stop_bridge on a stopped bridge
\* changes nothing; a start whose listener cannot be created leaves the
\* bridge not running.
C30_OneListener ==
    /\ Cardinality(serving) <= 1
    /\ serving = IF server_instance = NoInstance THEN {} ELSE {server_instance}
    /\ \A t \in LThreads :
          /\ lret[t].op = "is_running" =>
                (lret[t].value = "True" <=> lret[t].served # {})
          /\ (lret[t].op = "start" /\ lret[t].found # NoInstance) =>
                /\ lret[t].value = "instance"
                /\ lret[t].instance = lret[t].found
                /\ lret[t].served = {lret[t].found}
          /\ (lret[t].op = "stop" /\ lret[t].found = NoInstance) =>
                lret[t].served = {}
          /\ (lret[t].op = "start" /\ lret[t].value = "OSError") =>
                lret[t].served = {}

\* A start with another port was answered with the running instance.
C30_Witness ==
    \E t \in LThreads :
       /\ lret[t].op = "start"
       /\ lret[t].found # NoInstance
       /\ lret[t].instance = server_instance
       /\ lport[t] # server_instance.port
       /\ serving = {server_instance}

====
